---- MODULE Spec2Model ----
(***************************************************************************)
(* A model of the core of Cryptocomms: the segment number generator        *)
(* (SegmentNumGenerator.cpp), the replay tracker (CryptoMessageTracker)    *)
(* and the Connection protocol engine (Connection.cpp).                    *)
(*                                                                         *)
(* Numbers the program keeps in 48 bits are kept here in a narrower width  *)
(* (segnum_max stands for 2^48 - 1), and the replay tracker's block_size   *)
(* and max_blocks are scaled down in the same way; every other step is     *)
(* taken from the code.                                                    *)
(***************************************************************************)
EXTENDS Integers, Sequences, FiniteSets, Bags, TLC

(***************************************************************************)
(* Bounds of the model.                                                    *)
(***************************************************************************)
\* stands for segnum_max = 2^48 - 1 (SegmentNumGenerator.cpp:45)
segnum_max == 7
\* stands for 2^64 - 1, the largest value of unsigned long long: std::stoull
\* throws std::out_of_range on the digits of a greater number
ullong_max == 15
\* number of threads that call next_num() on the shared generator
NumThreads == 2
\* number of runs of the program (process starts) on the same pair of files
MaxRuns == 2
\* number of values next_num() hands out over all runs
MaxReturned == 3
\* largest value the wall clock takes: one more than segnum_max, so that
\* the check of get_segnum_sysclock() can fail
MaxClock == segnum_max + 1
\* number of packets the Connections of a host send over all runs: enough
\* for one Connection to use up the message numbers of a segment number
MaxSent == segnum_max + 1
\* largest reservation size passed to the constructor or set_reserved()
MaxReserved == 2
\* largest value the segnum files hold at installation
MaxInstalled == 1
\* stands for CryptoMessageTracker::block_size = 256
block_size == 2
\* stands for CryptoMessageTracker::max_blocks = 64
max_blocks == 4
\* largest message number passed to the tracker on its own
MaxMsgnum == 7
\* number of log_msgnum calls on the tracker on its own
MaxLogs == 5
\* largest round-trip time measurement, in milliseconds
MaxRtt == 1
\* number of milliseconds the clock advances
MaxTicks == 1
\* bytes one packet carries: stands for max_packet_size_ - 40
MaxPayload == 1
\* number of bytes a user writes
MaxUserBytes == 2
\* largest loop_max passed to move_data
MaxLoop == 2
\* number of times a Connection takes a new local segment number
MaxRollovers == 1
MaxPeerRollovers == 1
\* new local segment numbers of a Connection where it is run through several
MaxLocalRollovers == 2
MaxPeerMsgnum == 2
MaxInFlight == 2
\* number of Connections of the Session
NumConns == 2
\* number of connection worker threads of the Session
NumWorkers == 2
\* stand for dwell_min = 5 and dwell_max = 50 (Session.cpp:81-82)
dwell_min == 1
dwell_max == 2
\* number of messages in message_queue_ of a Connection of the Session
MaxQueued == 1
\* number of writes of the user waiting in a from-user FIFO
MaxWritten == 1

Threads == 1..NumThreads
NoThread == 0

Max(a, b) == IF a >= b THEN a ELSE b
Min(a, b) == IF a <= b THEN a ELSE b

\* the element of a set of one element; {f(v) : v \in {e}} is f at a local
\* variable v that holds the value of e
The(set) == CHOOSE element \in set : TRUE

VARIABLES
  \* ---- segment number generator ----
  file_first,          \* the file at path_first_ : [exists, data]
  file_second,         \* the file at path_second_
  next_num_,           \* SegmentNumGenerator::next_num_
  new_reserve_needed_, \* SegmentNumGenerator::new_reserve_needed_
  reserved_,           \* SegmentNumGenerator::reserved_
  lock_,               \* SegmentNumGenerator::lock_ : the thread holding it
  gpc,                 \* position of each thread inside next_num()
  glocal,              \* locals of reserve_nums() of each thread
  clock,               \* the wall clock, epoch_time_millis()
  alive,               \* the process is running
  run,                 \* number of the current run of the program
  returned,            \* every value next_num() returned, with the run and the
                       \* thread of the call and whether the call reserved
  thrown               \* what() of the exception that ended the run, "" if none

genvars == <<file_first, file_second, next_num_, new_reserve_needed_, reserved_,
             lock_, gpc, glocal, clock, alive, run, returned, thrown>>

VARIABLES
  \* ---- replay tracker on its own ----
  tracker,             \* a CryptoMessageTracker
  rtt_tracker_,        \* the RTTTracker it reads: [unused_, current_rtt_]
  now,                 \* std::chrono::system_clock::now(), in milliseconds
  tlog,                \* what was logged: per message number the time of its
                       \* last log_msgnum call, the highest number logged,
                       \* msgnum_bound of the header, the number of calls
  fresh                \* a CryptoMessageTracker constructed when reset() was
                       \* last called on tracker (or with it), and passed
                       \* the same calls at the same times since

trackervars == <<tracker, rtt_tracker_, now, tlog, fresh>>

VARIABLES
  \* ---- Connections, one per host ----
  conn,                \* the Connection object of each host
  message_queue_,      \* Connection::message_queue_ of each host
  fifo_from_user_,     \* bytes waiting in the from-user FIFO of each host
  fifo_to_user_,       \* bytes written to the to-user FIFO of each host
  written,             \* number of bytes the user of each host has written
  last_move,           \* record of the last move_data call
  accepted,            \* packets whose payload was written to fifo_to_user_
  promo                \* the first promotion of a peer segment number in an
                       \* open Connection, and what was sent since

connvars == <<conn, message_queue_, fifo_from_user_, fifo_to_user_, written,
              last_move, accepted, promo>>

VARIABLES
  \* ---- the Session ----
  connections_,            \* Session::connections_ : per connection id the
                           \* Connection (message_queue_, the data waiting in
                           \* its from-user FIFO, whether it is open) and
                           \* the bool "being worked on" (second)
  monitor_fds_,            \* Session::monitor_fds_ : the file descriptor of
                           \* the from-user FIFO of a Connection is its id
  connection_queue_,       \* Session::connection_queue_
  connection_dwell_loops_, \* Session::connection_dwell_loops_
  stopping_,               \* Session::stopping_
  active_,                 \* Session::active_
  monitor_wake,            \* the bytes in the pipe of monitor_wake_write_fd_
  udp_thread_stop,         \* a byte is in the pipe of udp_thread_stop_write_fd_
  worker,                  \* each connection worker thread: [pc, conn_id,
                           \* my_connection_dwell_loops]
  monitor,                 \* the fifo monitor thread: [pc, poll_fds, revents,
                           \* num_to_notify]
  udp_thread,              \* the udp socket thread: [pc, conn_id]
  stopper,                 \* the thread that calls stop(): its position
  terminated,              \* std::terminate() was called
  udp_sent                 \* the bag of the pairs (sender segment number,
                           \* message number) of all the packets the host
                           \* ever made with create_packet

sessvars == <<connections_, monitor_fds_, connection_queue_, connection_dwell_loops_,
              stopping_, active_, monitor_wake, udp_thread_stop, worker, monitor,
              udp_thread, stopper, terminated, udp_sent>>

(***************************************************************************)
(* Segment number files.  A file is a sequence of characters; "NL" is the  *)
(* line feed, "SP" a space and "X" any other non-digit.                    *)
(***************************************************************************)
Digits == <<"0", "1", "2", "3", "4", "5", "6", "7", "8", "9">>
DigitSet == {Digits[i] : i \in 1..10}

DigitChar(d) == Digits[d + 1]
DigitVal(c) == CHOOSE d \in 0..9 : Digits[d + 1] = c

RECURSIVE to_string(_)
\* std::to_string on an unsigned integer
to_string(n) ==
  IF n < 10 THEN <<DigitChar(n)>>
  ELSE to_string(n \div 10) \o <<DigitChar(n % 10)>>

RECURSIVE stoull(_)
\* std::stoull on a non-empty string of digits
stoull(s) ==
  IF Len(s) = 1 THEN DigitVal(s[1])
  ELSE 10 * stoull(SubSeq(s, 1, Len(s) - 1)) + DigitVal(s[Len(s)])

RECURSIVE getlines(_)
\* the successive results of std::getline on a stream holding s: the text
\* is cut at each line feed, and a read at the end of the text fails
getlines(s) ==
  IF s = <<>> THEN <<>>
  ELSE LET nl == {i \in 1..Len(s) : s[i] = "NL"}
       IN IF nl = {} THEN <<s>>
          ELSE LET k == CHOOSE i \in nl : \A j \in nl : i <= j
               IN <<SubSeq(s, 1, k - 1)>> \o getlines(SubSeq(s, k + 1, Len(s)))

NoFile == [exists |-> FALSE, data |-> <<>>]
FileOf(s) == [exists |-> TRUE, data |-> s]

\* what save_segnum writes: the number, std::endl, the number
segnum_file_text(n) == to_string(n) \o <<"NL">> \o to_string(n)

TooLarge == -1

\* a bug: a missing file is taken for the file of a new installation
get_saved_segnum_or_one(f) ==
  IF ~f.exists THEN 1
  ELSE LET ls == getlines(f.data)
       IN IF Len(ls) < 2 \/ ls[1] # ls[2] THEN 0
          ELSE IF \E i \in 3..Len(ls) : Len(ls[i]) > 0 THEN 0
          ELSE IF \E i \in 1..Len(ls[1]) : ls[1][i] \notin DigitSet THEN 0
          ELSE IF ls[1] = <<>> THEN 0
          ELSE IF stoull(ls[1]) > ullong_max THEN 0
          ELSE IF ~(stoull(ls[1]) < segnum_max) THEN TooLarge
          ELSE stoull(ls[1])

\* get_saved_segnum(): 0 for a missing or malformed file and when
\* std::stoull throws (no digits, or a number that does not fit unsigned
\* long long: the exception is caught), TooLarge when it throws "segment
\* number too large in file", the stored number otherwise
get_saved_segnum(f) ==
  IF ~f.exists THEN 0
  ELSE LET ls == getlines(f.data)
       IN IF Len(ls) < 2 \/ ls[1] # ls[2] THEN 0
          ELSE IF \E i \in 3..Len(ls) : Len(ls[i]) > 0 THEN 0
          ELSE IF \E i \in 1..Len(ls[1]) : ls[1][i] \notin DigitSet THEN 0
          ELSE IF ls[1] = <<>> THEN 0
          ELSE IF stoull(ls[1]) > ullong_max THEN 0
          ELSE IF ~(stoull(ls[1]) < segnum_max) THEN TooLarge
          ELSE stoull(ls[1])

Prefixes(s) == {SubSeq(s, 1, n) : n \in 0..Len(s)}

(***************************************************************************)
(* The segment number generator.  next_num() runs under lock_; its steps   *)
(* are kept apart where another thread, the clock or a crash can come in   *)
(* between.  An exception thrown by next_num() or set_reserved() is caught *)
(* nowhere in Session.cpp, Connection.cpp or main.cpp: it ends the run.    *)
(***************************************************************************)
GenLocals == [saved |-> 0, base |-> 0]

\* the state a SegmentNumGenerator has after construction
GenConstructed(r) ==
  /\ next_num_ = 1
  /\ new_reserve_needed_ = 1
  /\ reserved_ = r
  /\ lock_ = NoThread
  /\ gpc = [t \in Threads |-> "idle"]
  /\ glocal = [t \in Threads |-> GenLocals]

GenInit ==
  /\ \E v \in 1..MaxInstalled :
       /\ file_first = FileOf(segnum_file_text(v))
       /\ file_second = FileOf(segnum_file_text(v))
  /\ \E r \in 1..MaxReserved : GenConstructed(r)
  /\ clock \in 1..MaxClock
  /\ alive = TRUE
  /\ run = 1
  /\ returned = <<>>
  /\ thrown = ""

\* the generator when another part of the program is the one that runs
GenUnused ==
  /\ file_first = FileOf(segnum_file_text(1))
  /\ file_second = FileOf(segnum_file_text(1))
  /\ GenConstructed(1)
  /\ clock = 1
  /\ alive = TRUE
  /\ run = 1
  /\ returned = <<>>
  /\ thrown = ""

\* std::lock_guard on lock_: the caller gets the mutex when no thread holds it
LockFree == lock_ = NoThread

\* the process has stopped: the generator object is gone with its memory
Stopped ==
  /\ alive' = FALSE
  /\ next_num_' = 1
  /\ new_reserve_needed_' = 1
  /\ lock_' = NoThread
  /\ gpc' = [t \in Threads |-> "idle"]
  /\ glocal' = [t \in Threads |-> GenLocals]

\* the exception leaves the process: the run is over
Throw(what) ==
  /\ Stopped
  /\ thrown' = what
  /\ UNCHANGED <<file_first, file_second, reserved_, clock, run, returned>>

\* a bug: reserve_nums() is never called, the counter is handed out as it is
NextNumEnter_unreserved(t) ==
  /\ alive /\ gpc[t] = "idle"
  /\ Len(returned) < MaxReturned
  /\ LockFree
  /\ lock_' = t
  /\ gpc' = [gpc EXCEPT ![t] = "return"]
  /\ UNCHANGED <<file_first, file_second, next_num_, new_reserve_needed_,
                 reserved_, glocal, clock, alive, run, returned, thrown>>

\* next_num(), up to the test whether a reservation is needed
NextNumEnter(t) ==
  /\ alive /\ gpc[t] = "idle"
  /\ Len(returned) < MaxReturned
  /\ LockFree
  /\ lock_' = t
  /\ gpc' = [gpc EXCEPT ![t] = IF next_num_ = new_reserve_needed_
                                THEN "reserve" ELSE "return"]
  /\ UNCHANGED <<file_first, file_second, next_num_, new_reserve_needed_,
                 reserved_, glocal, clock, alive, run, returned, thrown>>

\* reserve_nums(): read both files, take the first reading of the clock
ReserveRead(t) ==
  /\ alive /\ gpc[t] = "reserve"
  /\ LET s1 == get_saved_segnum(file_first)
         s2 == get_saved_segnum(file_second)
     IN IF s1 = TooLarge \/ s2 = TooLarge
        THEN Throw("segment number too large in file")
        ELSE IF Max(s1, s2) = 0
        THEN Throw("error reading saved segment number")
        ELSE IF clock > segnum_max
        THEN Throw("timestamp from the system is too big")
        ELSE /\ glocal' = [glocal EXCEPT ![t] = [saved |-> Max(s1, s2), base |-> clock]]
             /\ gpc' = [gpc EXCEPT ![t] = "clockwait"]
             /\ UNCHANGED <<file_first, file_second, next_num_, new_reserve_needed_,
                            reserved_, lock_, clock, alive, run, returned, thrown>>

\* a bug: the stored number is ignored
first_free_clock_only(saved_segnum, sysclock_segnum) == sysclock_segnum

\* reserve_nums(): std::max(saved_segnum+1,sysclock_segnum)
first_free(saved_segnum, sysclock_segnum) == Max(saved_segnum + 1, sysclock_segnum)

\* reserve_nums(): the clock has moved off its first reading; next_num_ and
\* the new limit are computed
ReserveCompute(t) ==
  /\ alive /\ gpc[t] = "clockwait"
  /\ clock # glocal[t].base
  /\ LET n == first_free(glocal[t].saved, clock)
     IN IF clock > segnum_max
        THEN Throw("timestamp from the system is too big")
        ELSE IF n + reserved_ > segnum_max
        THEN Throw("new upper segment number limit is too high")
        ELSE /\ next_num_' = n
             /\ new_reserve_needed_' = n + reserved_
             /\ gpc' = [gpc EXCEPT ![t] = "first_open"]
             /\ UNCHANGED <<file_first, file_second, reserved_, lock_, glocal,
                            clock, alive, run, returned, thrown>>

\* save_segnum(): std::ofstream(path, std::ios::trunc)
SaveOpen(t, at, to, file) ==
  /\ alive /\ gpc[t] = at
  /\ file' = FileOf(<<>>)
  /\ gpc' = [gpc EXCEPT ![t] = to]

\* save_segnum(): segnum_file << segnum_string << std::endl
SaveLine(t, at, to, file) ==
  /\ alive /\ gpc[t] = at
  /\ file' = FileOf(to_string(new_reserve_needed_ - 1) \o <<"NL">>)
  /\ gpc' = [gpc EXCEPT ![t] = to]

\* a bug: the limit itself is stored, not the last number of the reservation
SaveClose_limit(t, at, to, file) ==
  /\ alive /\ gpc[t] = at
  /\ file' = FileOf(segnum_file_text(new_reserve_needed_))
  /\ gpc' = [gpc EXCEPT ![t] = to]

\* save_segnum(): segnum_file << segnum_string; segnum_file.close()
SaveClose(t, at, to, file) ==
  /\ alive /\ gpc[t] = at
  /\ file' = FileOf(segnum_file_text(new_reserve_needed_ - 1))
  /\ gpc' = [gpc EXCEPT ![t] = to]

\* save_segnum(): the value is read back; a mismatch writes the file again
SaveCheck(t, at, done, again, file) ==
  /\ alive /\ gpc[t] = at
  /\ gpc' = [gpc EXCEPT ![t] =
               IF get_saved_segnum(file) = new_reserve_needed_ - 1 THEN done ELSE again]

SaveFirst(t) ==
  /\ \/ SaveOpen(t, "first_open", "first_line", file_first)
     \/ SaveLine(t, "first_line", "first_close", file_first)
     \/ SaveClose(t, "first_close", "first_check", file_first)
     \/ SaveCheck(t, "first_check", "second_open", "first_open", file_first)
          /\ UNCHANGED file_first
  /\ UNCHANGED <<file_second, next_num_, new_reserve_needed_, reserved_, lock_,
                 glocal, clock, alive, run, returned, thrown>>

SaveSecond(t) ==
  /\ \/ SaveOpen(t, "second_open", "second_line", file_second)
     \/ SaveLine(t, "second_line", "second_close", file_second)
     \/ SaveClose(t, "second_close", "second_check", file_second)
     \/ SaveCheck(t, "second_check", "return", "second_open", file_second)
          /\ UNCHANGED file_second
  /\ UNCHANGED <<file_first, next_num_, new_reserve_needed_, reserved_, lock_,
                 glocal, clock, alive, run, returned, thrown>>

\* a bug: the counter stays where it is after a value is handed out
post_increment_forgotten(num) == num

\* next_num_++: the counter after the value it held is handed out
post_increment(num) == num + 1

\* next_num(): return next_num_++ and release lock_
NextNumReturn(t) ==
  /\ alive /\ gpc[t] = "return"
  /\ returned' = Append(returned, [run |-> run, thread |-> t, val |-> next_num_,
                                   fresh |-> glocal[t].saved # 0,
                                   saved |-> glocal[t].saved])
  /\ next_num_' = post_increment(next_num_)
  /\ lock_' = IF lock_ = t THEN NoThread ELSE lock_
  /\ gpc' = [gpc EXCEPT ![t] = "idle"]
  /\ glocal' = [glocal EXCEPT ![t] = GenLocals]
  /\ UNCHANGED <<file_first, file_second, new_reserve_needed_, reserved_,
                 clock, alive, run, thrown>>

\* set_reserved(): under lock_; 0 is refused with an exception
SetReserved(t, r) ==
  /\ alive /\ gpc[t] = "idle"
  /\ LockFree
  /\ IF r = 0
     THEN Throw("set_reserved called with 0")
     ELSE /\ reserved_' = r
          /\ UNCHANGED <<file_first, file_second, next_num_, new_reserve_needed_,
                         lock_, gpc, glocal, clock, alive, run, returned, thrown>>

\* the wall clock moves, forwards or backwards
ClockChange ==
  /\ \E c \in 1..MaxClock : c # clock /\ clock' = c
  /\ UNCHANGED <<file_first, file_second, next_num_, new_reserve_needed_,
                 reserved_, lock_, gpc, glocal, alive, run, returned, thrown>>

\* what a file being written by save_segnum() can hold when the process stops
\* between the open and the close: any part of the text, from the start
CrashedFile(file, open) ==
  IF open THEN {FileOf(s) : s \in Prefixes(segnum_file_text(new_reserve_needed_ - 1))}
          ELSE {file}

\* the process stops (destruction, kill, power loss) at any point
Crash ==
  /\ alive
  /\ Stopped
  /\ file_first' \in CrashedFile(file_first,
        \E t \in Threads : gpc[t] \in {"first_line", "first_close"})
  /\ file_second' \in CrashedFile(file_second,
        \E t \in Threads : gpc[t] \in {"second_line", "second_close"})
  /\ UNCHANGED <<reserved_, clock, run, returned, thrown>>

\* the program is started again on the same files
Restart ==
  /\ ~alive /\ run < MaxRuns
  /\ alive' = TRUE
  /\ run' = run + 1
  /\ next_num_' = 1
  /\ new_reserve_needed_' = 1
  /\ \E r \in 1..MaxReserved : reserved_' = r
  /\ lock_' = NoThread
  /\ gpc' = [t \in Threads |-> "idle"]
  /\ glocal' = [t \in Threads |-> GenLocals]
  /\ thrown' = ""
  /\ UNCHANGED <<file_first, file_second, clock, returned>>

GenNext ==
  \/ \E t \in Threads : NextNumEnter(t) /\ UNCHANGED <<trackervars, connvars, sessvars>>
  \/ \E t \in Threads : ReserveRead(t) /\ UNCHANGED <<trackervars, connvars, sessvars>>
  \/ \E t \in Threads : ReserveCompute(t) /\ UNCHANGED <<trackervars, connvars, sessvars>>
  \/ \E t \in Threads : SaveFirst(t) /\ UNCHANGED <<trackervars, connvars, sessvars>>
  \/ \E t \in Threads : SaveSecond(t) /\ UNCHANGED <<trackervars, connvars, sessvars>>
  \/ \E t \in Threads : NextNumReturn(t) /\ UNCHANGED <<trackervars, connvars, sessvars>>
  \/ \E t \in Threads, r \in 0..MaxReserved : SetReserved(t, r) /\ UNCHANGED <<trackervars, connvars, sessvars>>
  \/ ClockChange /\ UNCHANGED <<trackervars, connvars, sessvars>>
  \/ Crash /\ UNCHANGED <<trackervars, connvars, sessvars>>
  \/ Restart /\ UNCHANGED <<trackervars, connvars, sessvars>>

\* next_num() ends with an exception of reserve_nums() that the caller
\* catches: the generator lives on with the members as the throw left them,
\* and the std::lock_guard gives lock_ back.  The limit is found too high
\* after next_num_ was assigned; a file that cannot be opened for writing is
\* found after new_reserve_needed_ was assigned too, and is left as it was.
NextNumThrows(t) ==
  /\ alive
  /\ \/ /\ gpc[t] = "clockwait"
        /\ clock # glocal[t].base
        /\ clock <= segnum_max
        /\ first_free(glocal[t].saved, clock) + reserved_ > segnum_max
        /\ next_num_' = first_free(glocal[t].saved, clock)
        /\ thrown' = "new upper segment number limit is too high"
        /\ UNCHANGED new_reserve_needed_
     \/ /\ gpc[t] \in {"first_open", "second_open"}
        /\ thrown' = "could not open stored segment number file"
        /\ UNCHANGED <<next_num_, new_reserve_needed_>>
  /\ lock_' = IF lock_ = t THEN NoThread ELSE lock_
  /\ gpc' = [gpc EXCEPT ![t] = "idle"]
  /\ glocal' = [glocal EXCEPT ![t] = GenLocals]
  /\ UNCHANGED <<file_first, file_second, reserved_, clock, alive, run, returned>>

\* the generator with a caller that catches what next_num() throws
ThrowNext ==
  \/ \E t \in Threads : NextNumEnter(t) /\ UNCHANGED <<trackervars, connvars, sessvars>>
  \/ \E t \in Threads : ReserveRead(t) /\ UNCHANGED <<trackervars, connvars, sessvars>>
  \/ \E t \in Threads : ReserveCompute(t) /\ UNCHANGED <<trackervars, connvars, sessvars>>
  \/ \E t \in Threads : SaveFirst(t) /\ UNCHANGED <<trackervars, connvars, sessvars>>
  \/ \E t \in Threads : SaveSecond(t) /\ UNCHANGED <<trackervars, connvars, sessvars>>
  \/ \E t \in Threads : NextNumReturn(t) /\ UNCHANGED <<trackervars, connvars, sessvars>>
  \/ \E t \in Threads : NextNumThrows(t) /\ UNCHANGED <<trackervars, connvars, sessvars>>
  \/ ClockChange /\ UNCHANGED <<trackervars, connvars, sessvars>>

(***************************************************************************)
(* The replay tracker, CryptoMessageTracker.  A tracker is a record of its *)
(* four members; the vectors are functions on 0..size-1.  The functions of *)
(* the class are operators from a tracker to the tracker they leave.       *)
(***************************************************************************)
EmptyBlock == [first |-> 0, second |-> 0]

\* the tracker the constructor builds
CryptoMessageTracker ==
  [block_records_ |-> [b \in 0..0 |-> EmptyBlock],
   msg_records_   |-> [i \in 0..(block_size - 1) |-> FALSE],
   current_block_ |-> 0,
   base_msgnum_   |-> 0]

\* block_records_.size() and msg_records_.size()
NumBlocks(T) == Cardinality(DOMAIN T.block_records_)
RecordsSize(T) == Cardinality(DOMAIN T.msg_records_)

\* a bug: the window stays where it was
reset_records_only(T) ==
  [block_records_ |-> [b \in DOMAIN T.block_records_ |-> EmptyBlock],
   msg_records_   |-> [i \in DOMAIN T.msg_records_ |-> FALSE],
   current_block_ |-> T.current_block_,
   base_msgnum_   |-> T.base_msgnum_]

reset(T) ==
  [block_records_ |-> [b \in DOMAIN T.block_records_ |-> EmptyBlock],
   msg_records_   |-> [i \in DOMAIN T.msg_records_ |-> FALSE],
   current_block_ |-> 0,
   base_msgnum_   |-> 0]

records_pos(T, msgnum) ==
  ((msgnum - T.base_msgnum_) + (block_size * T.current_block_)) % RecordsSize(T)

\* a bug: a message number below one already recorded counts as seen
have_seen_msgnum_in_order(T, msgnum) ==
  IF msgnum < T.base_msgnum_ THEN TRUE
  ELSE IF msgnum >= T.base_msgnum_ + RecordsSize(T) THEN FALSE
  ELSE \E i \in DOMAIN T.msg_records_ :
         i >= records_pos(T, msgnum) /\ T.msg_records_[i]

have_seen_msgnum(T, msgnum) ==
  IF msgnum < T.base_msgnum_ THEN TRUE
  ELSE IF msgnum >= T.base_msgnum_ + RecordsSize(T) THEN FALSE
  ELSE T.msg_records_[records_pos(T, msgnum)]

\* the test in the loop of how_many_extra_blocks on the block i blocks on
\* from current_block_; the subtraction is unsigned, so a timestamp later
\* than the clock gives a huge difference
WorthKeeping(T, i, millis_since_epoch, current_rtt) ==
  LET block_record == T.block_records_[(i + T.current_block_) % NumBlocks(T)]
  IN /\ block_record.first < block_size
     /\ millis_since_epoch >= block_record.second
     /\ millis_since_epoch - block_record.second <= current_rtt

how_many_extra_blocks(T, num_blocks_forward, millis_since_epoch, current_rtt) ==
  IF NumBlocks(T) = max_blocks THEN 0
  ELSE
    LET i_limit == Min(NumBlocks(T), num_blocks_forward)
        stops == {j \in 0..(i_limit - 1) :
                    WorthKeeping(T, j, millis_since_epoch, current_rtt)}
        i == IF stops = {} THEN i_limit
             ELSE CHOOSE j \in stops : \A l \in stops : j <= l
    IN Min(num_blocks_forward - i, max_blocks - NumBlocks(T))

move_records_window(T, num_blocks_forward) ==
  LET size == NumBlocks(T)
      num_blocks_to_reset == Min(size, num_blocks_forward)
      cleared == {(i + T.current_block_) % size : i \in 0..(num_blocks_to_reset - 1)}
  IN [block_records_ |-> [b \in DOMAIN T.block_records_ |->
                            IF b \in cleared THEN EmptyBlock ELSE T.block_records_[b]],
      msg_records_   |-> [i \in DOMAIN T.msg_records_ |->
                            IF (i \div block_size) \in cleared THEN FALSE
                            ELSE T.msg_records_[i]],
      current_block_ |-> (T.current_block_ + num_blocks_forward) % size,
      base_msgnum_   |-> T.base_msgnum_ + (num_blocks_forward * block_size)]

\* 2^32 modulo size, in steps that stay inside the integers of the checker
UIntWrap(size) == ((65536 % size) * (65536 % size)) % size

\* (current_block_ - num_blocks_to_copy) % block_records_.size() : both
\* operands are unsigned int, so a negative difference wraps at 2^32 before
\* the remainder is taken
first_block_to_copy(current_block, num_blocks_to_copy, size) ==
  IF current_block >= num_blocks_to_copy
  THEN (current_block - num_blocks_to_copy) % size
  ELSE (UIntWrap(size) + size - ((num_blocks_to_copy - current_block) % size)) % size

reallocate_records(T, num_blocks_forward, num_extra_blocks) ==
  LET size == NumBlocks(T)
      new_size == size + num_extra_blocks
      num_blocks_to_copy ==
        IF (num_blocks_forward - num_extra_blocks) > size THEN 0
        ELSE size - (num_blocks_forward - num_extra_blocks)
      from == first_block_to_copy(T.current_block_, num_blocks_to_copy, size)
      this_block_offset(i) == (from + i) % size
  IN [block_records_ |-> [i \in 0..(new_size - 1) |->
                            IF i < num_blocks_to_copy
                            THEN T.block_records_[this_block_offset(i)]
                            ELSE EmptyBlock],
      msg_records_   |-> [j \in 0..((new_size * block_size) - 1) |->
                            IF (j \div block_size) < num_blocks_to_copy
                            THEN T.msg_records_[(this_block_offset(j \div block_size) * block_size)
                                                + (j % block_size)]
                            ELSE FALSE],
      current_block_ |-> 0,
      base_msgnum_   |-> T.base_msgnum_
                         + ((num_blocks_forward - num_extra_blocks) * block_size)]

\* a bug: the whole block of msgnum is marked as seen
record_msgnum_whole_block(T, msgnum, millis_since_epoch) ==
  LET i == records_pos(T, msgnum)
  IN [T EXCEPT !.msg_records_ = [j \in DOMAIN T.msg_records_ |->
                                   IF j \div block_size = i \div block_size THEN TRUE
                                   ELSE T.msg_records_[j]],
               !.block_records_[i \div block_size] =
                  [first |-> @.first + 1, second |-> millis_since_epoch]]

\* the end of log_msgnum: the record of msgnum and the block metadata
record_msgnum(T, msgnum, millis_since_epoch) ==
  LET i == records_pos(T, msgnum)
  IN [T EXCEPT !.msg_records_[i] = TRUE,
               !.block_records_[i \div block_size] =
                  [first |-> @.first + 1, second |-> millis_since_epoch]]

\* the window moved on by num_blocks_forward blocks, the vectors enlarged
\* by num_extra_blocks if that is not 0
move_or_reallocate(T, num_blocks_forward, num_extra_blocks) ==
  IF num_extra_blocks = 0
  THEN move_records_window(T, num_blocks_forward)
  ELSE reallocate_records(T, num_blocks_forward, num_extra_blocks)

blocks_forward(T, msgnum) ==
  ((msgnum - (T.base_msgnum_ + RecordsSize(T))) \div block_size) + 1

\* log_msgnum at clock reading millis_since_epoch, with rtt_tracker_
\* reporting current_rtt
log_msgnum(T, msgnum, millis_since_epoch, current_rtt) ==
  IF msgnum < T.base_msgnum_ THEN T
  ELSE IF msgnum >= T.base_msgnum_ + RecordsSize(T)
  THEN The({record_msgnum(moved, msgnum, millis_since_epoch) :
              moved \in {move_or_reallocate(T, blocks_forward(T, msgnum), num_extra_blocks) :
                           num_extra_blocks \in
                             {how_many_extra_blocks(T, blocks_forward(T, msgnum),
                                                    millis_since_epoch, current_rtt)}}})
  ELSE record_msgnum(T, msgnum, millis_since_epoch)

(***************************************************************************)
(* RTTTracker.                                                             *)
(***************************************************************************)
\* a value-initialised RTTTracker, as std::make_shared<RTTTracker>() builds
RTTTracker == [unused_ |-> TRUE, current_rtt_ |-> 0]

\* current_rtt_ = rtt_measurement + 0.9*(current_rtt_ - rtt_measurement),
\* truncated to an integer
update_rtt(R, rtt_measurement) ==
  IF R.unused_ THEN [unused_ |-> FALSE, current_rtt_ |-> rtt_measurement]
  ELSE [unused_ |-> FALSE,
        current_rtt_ |-> ((rtt_measurement * 10) + (9 * (R.current_rtt_ - rtt_measurement))) \div 10]

(***************************************************************************)
(* The tracker on its own: log_msgnum is called with any message number,   *)
(* at any time and under any round-trip time.                              *)
(***************************************************************************)
Msgnums == 0..MaxMsgnum

\* the clock reading at the start; measured from the epoch it is far more
\* than any round-trip time, so the timestamp 0 of an unused block is old
Epoch == MaxRtt + 1

\* msgnum_bound as the header of the class defines it, from the times of the
\* log_msgnum calls: last[m] is the time m was last logged, or -1
msgnum_bound(last, msgnum_highest, logged_at, rtt_current) ==
  LET x == ((msgnum_highest \div block_size) + 1) * block_size
      y == x - (block_size * max_blocks)
      zs == {m \in DOMAIN last : /\ last[m] >= 0
                                 /\ last[m] <= logged_at
                                 /\ logged_at - last[m] <= rtt_current
                                 /\ m >= y}
      z == CHOOSE m \in zs : \A l \in zs : m <= l
  IN (z \div block_size) * block_size

TrackerUnused ==
  /\ tracker = CryptoMessageTracker
  /\ rtt_tracker_ = RTTTracker
  /\ now = Epoch
  /\ tlog = [last |-> [m \in Msgnums |-> -1], highest |-> -1, bound |-> 0, calls |-> 0]
  /\ fresh = CryptoMessageTracker

TrackerInit == TrackerUnused

LogMsgnum(msgnum) ==
  /\ tlog.calls < MaxLogs
  /\ tracker' = log_msgnum(tracker, msgnum, now, rtt_tracker_.current_rtt_)
  /\ fresh' = log_msgnum(fresh, msgnum, now, rtt_tracker_.current_rtt_)
  /\ LET last == [tlog.last EXCEPT ![msgnum] = now]
     IN tlog' = [last    |-> last,
                 highest |-> Max(tlog.highest, msgnum),
                 bound   |-> IF msgnum >= tlog.highest
                             THEN msgnum_bound(last, msgnum, now, rtt_tracker_.current_rtt_)
                             ELSE tlog.bound,
                 calls   |-> tlog.calls + 1]
  /\ UNCHANGED <<rtt_tracker_, now>>

UpdateRtt(rtt_measurement) ==
  /\ rtt_tracker_' = update_rtt(rtt_tracker_, rtt_measurement)
  /\ UNCHANGED <<tracker, now, tlog, fresh>>

Tick ==
  /\ now < Epoch + MaxTicks
  /\ now' = now + 1
  /\ UNCHANGED <<tracker, rtt_tracker_, tlog, fresh>>

TrackerNext ==
  \/ \E msgnum \in Msgnums : LogMsgnum(msgnum) /\ UNCHANGED <<genvars, connvars, sessvars>>
  \/ \E rtt_measurement \in 0..MaxRtt : UpdateRtt(rtt_measurement) /\ UNCHANGED <<genvars, connvars, sessvars>>
  \/ Tick /\ UNCHANGED <<genvars, connvars, sessvars>>

\* reset() is called on the tracker: a new message session starts
Reset ==
  /\ tracker' = reset(tracker)
  /\ fresh' = CryptoMessageTracker
  /\ tlog' = [last |-> [m \in Msgnums |-> -1], highest |-> -1, bound |-> 0,
              calls |-> tlog.calls]
  /\ UNCHANGED <<rtt_tracker_, now>>

ResetNext ==
  \/ TrackerNext
  \/ Reset /\ UNCHANGED <<genvars, connvars, sessvars>>


(***************************************************************************)
(* Packets and the AEAD.  A packet is its three header numbers and the     *)
(* sealed part: what was encrypted, under which key, additional data and   *)
(* initialisation vector.  AES-256-GCM is taken as ideal: the tag checks   *)
(* exactly when key, additional data and iv are those of the encryption    *)
(* and neither ciphertext nor tag was altered.                             *)
(***************************************************************************)
Hosts == {"A", "B"}
PeerOf(h) == IF h = "A" THEN "B" ELSE "A"

\* uint_to_bytes(val, 6) read back by bytes_to_uint: the low 48 bits
uint_to_bytes(val) == val % (segnum_max + 1)

\* a bug: the info does not depend on which of the two hosts sends
hkdf_expand_unordered(from, to) == {from, to}

\* hkdf_expand of the shared secret with the info self|peer|channel
hkdf_expand(from, to) == <<from, to>>

encrypt(key, plaintext, additional, iv) ==
  [key |-> key, additional |-> additional, iv |-> iv, plaintext |-> plaintext]

\* a bug: the tag check does not cover the additional data
decrypt_without_additional(key, message, additional, iv) ==
  LET good_tag == /\ message.sealed.key = key
                  /\ message.sealed.iv = iv
                  /\ message.altered = "no"
  IN [good_tag |-> good_tag,
      plaintext |-> IF good_tag THEN message.sealed.plaintext ELSE <<>>]

decrypt(key, message, additional, iv) ==
  LET good_tag == /\ message.sealed.key = key
                  /\ message.sealed.additional = additional
                  /\ message.sealed.iv = iv
                  /\ message.altered = "no"
  IN [good_tag |-> good_tag,
      plaintext |-> IF good_tag THEN message.sealed.plaintext ELSE <<>>]

unpack_header(message) ==
  [my_segnum   |-> message.recv_segnum,
   peer_segnum |-> message.send_segnum,
   msgnum      |-> message.msgnum,
   ad          |-> message.recv_segnum,
   iv          |-> <<message.send_segnum, message.msgnum>>]

(***************************************************************************)
(* Connection.  A Connection is a record of its members; segnumgen_ is the *)
(* next value its generator hands out.  create_packet, handle_message and  *)
(* move_data are operators from a Connection to what they leave.           *)
(***************************************************************************)
\* the Connection the constructor builds for host self_id, whose generator
\* returns first_segnum
Connection(self_id, first_segnum) ==
  [self_id_ |-> self_id,
   peer_id_ |-> PeerOf(self_id),
   segnumgen_ |-> first_segnum + 1,
   rtt_tracker_ |-> RTTTracker,
   current_crypto_message_tracker_ |-> CryptoMessageTracker,
   old_crypto_message_tracker_ |-> CryptoMessageTracker,
   current_peer_segnum_ |-> 0,
   old_peer_segnum_ |-> 0,
   current_local_segnum_ |-> first_segnum,
   old_local_segnum_ |-> 0,
   local_next_msgnum_ |-> 1,
   last_hello_packet_sent_ |-> 0]

\* a bug: the message numbers start again under the segment number in use
roll_over_same_segnum(c) ==
  IF c.local_next_msgnum_ > segnum_max
  THEN [c EXCEPT !.local_next_msgnum_ = 1]
  ELSE c

\* a bug: the segment number given up is not kept
roll_over_forgetting_old(c) ==
  IF c.local_next_msgnum_ > segnum_max
  THEN [c EXCEPT !.current_local_segnum_ = c.segnumgen_,
                 !.segnumgen_ = c.segnumgen_ + 1,
                 !.local_next_msgnum_ = 1]
  ELSE c

\* create_packet, first part: a new local segment number if the message
\* numbers of the current one are used up
roll_over(c) ==
  IF c.local_next_msgnum_ > segnum_max
  THEN [c EXCEPT !.old_local_segnum_ = c.current_local_segnum_,
                 !.current_local_segnum_ = c.segnumgen_,
                 !.segnumgen_ = c.segnumgen_ + 1,
                 !.local_next_msgnum_ = 1]
  ELSE c

\* create_packet, second part: the packet is put together
pack(c, data_bytes, peer_segnum_bytes, local_segnum_bytes, msgnum_bytes) ==
  [conn   |-> [c EXCEPT !.local_next_msgnum_ = c.local_next_msgnum_ + 1],
   packet |-> [recv_segnum |-> peer_segnum_bytes,
               send_segnum |-> local_segnum_bytes,
               msgnum      |-> msgnum_bytes,
               sealed      |-> encrypt(hkdf_expand(c.self_id_, c.peer_id_), data_bytes,
                                       peer_segnum_bytes,
                                       <<local_segnum_bytes, msgnum_bytes>>),
               altered     |-> "no"]]

packed(c, data_bytes, peer_segnum) ==
  pack(c, data_bytes,
       IF peer_segnum = 0 THEN uint_to_bytes(c.current_peer_segnum_)
       ELSE uint_to_bytes(peer_segnum),
       uint_to_bytes(c.current_local_segnum_),
       uint_to_bytes(c.local_next_msgnum_))

create_packet(c, data_bytes, peer_segnum) ==
  packed(roll_over(c), data_bytes, peer_segnum)

\* msg_oh.peer_segnum > current_peer_segnum_
\* a bug: any other segment number of the peer counts as newer
newer_or_different(peer_segnum, current_peer_segnum) ==
  peer_segnum # current_peer_segnum

newer(peer_segnum, current_peer_segnum) == peer_segnum > current_peer_segnum

dropped(c) == [conn |-> c, sent |-> <<>>, wrote |-> <<>>]

\* a bug: the sender segment number of the packet answered counts as
\* confirmed
respond_confirming(response) ==
  [conn |-> [response.conn EXCEPT
               !.old_peer_segnum_ = response.conn.current_peer_segnum_,
               !.current_peer_segnum_ = response.packet.recv_segnum],
   sent |-> <<response.packet>>, wrote |-> <<>>]

\* the empty packet sent in answer to a packet that decrypts but carries no
\* segment number of ours
respond(response) ==
  [conn |-> response.conn, sent |-> <<response.packet>>, wrote |-> <<>>]

\* a packet under a confirmed peer segment number: the message number is
\* logged in the tracker of that segment number and the data written
deliver(c, is_current, logged, plaintext_data) ==
  [conn  |-> IF is_current
             THEN [c EXCEPT !.current_crypto_message_tracker_ = logged]
             ELSE [c EXCEPT !.old_crypto_message_tracker_ = logged],
   sent  |-> <<>>,
   wrote |-> <<plaintext_data>>]

\* a bug: the peer segment number in use so far is dropped when a new one is
\* confirmed
confirm_forgetting_old(c, msg_oh, millis, plaintext_data) ==
  [conn  |-> [c EXCEPT
                !.old_peer_segnum_ = 0,
                !.current_peer_segnum_ = msg_oh.peer_segnum,
                !.current_crypto_message_tracker_ =
                   log_msgnum(reset(c.current_crypto_message_tracker_),
                              msg_oh.msgnum, millis, c.rtt_tracker_.current_rtt_)],
   sent  |-> <<>>,
   wrote |-> <<plaintext_data>>]

\* a new peer segment number is confirmed
confirm(c, msg_oh, millis, plaintext_data) ==
  [conn  |-> [c EXCEPT
                !.old_peer_segnum_ = c.current_peer_segnum_,
                !.old_crypto_message_tracker_ = c.current_crypto_message_tracker_,
                !.current_peer_segnum_ = msg_oh.peer_segnum,
                !.current_crypto_message_tracker_ =
                   log_msgnum(reset(c.current_crypto_message_tracker_),
                              msg_oh.msgnum, millis, c.rtt_tracker_.current_rtt_)],
   sent  |-> <<>>,
   wrote |-> <<plaintext_data>>]

\* a bug: the local segment number given up at a rollover is not accepted
msg_my_segnum_current_only(c, msg_oh) ==
  /\ msg_oh.my_segnum # 0
  /\ msg_oh.my_segnum = c.current_local_segnum_

msg_my_segnum_good(c, msg_oh) ==
  /\ msg_oh.my_segnum # 0
  /\ \/ msg_oh.my_segnum = c.current_local_segnum_
     \/ msg_oh.my_segnum = c.old_local_segnum_

\* the tracker of the confirmed peer segment number of the packet
tracker_of(c, msg_oh) ==
  IF msg_oh.peer_segnum = c.current_peer_segnum_
  THEN c.current_crypto_message_tracker_
  ELSE c.old_crypto_message_tracker_

\* a bug: a packet without a segment number of ours is answered when its
\* sender segment number is the one in use (<, not <=)
handle_unpacked_answering_current(c, msg_oh, decryption, millis) ==
  IF msg_oh.peer_segnum = 0 THEN dropped(c)
  ELSE IF ~msg_my_segnum_good(c, msg_oh)
  THEN IF msg_oh.peer_segnum < c.current_peer_segnum_ THEN dropped(c)
       ELSE IF decryption.good_tag
       THEN The({respond(response) :
                   response \in {create_packet(c, <<>>, msg_oh.peer_segnum)}})
       ELSE dropped(c)
  ELSE IF \/ msg_oh.peer_segnum = c.current_peer_segnum_
          \/ msg_oh.peer_segnum = c.old_peer_segnum_
  THEN IF ~have_seen_msgnum(tracker_of(c, msg_oh), msg_oh.msgnum) /\ decryption.good_tag
       THEN deliver(c, msg_oh.peer_segnum = c.current_peer_segnum_,
                    log_msgnum(tracker_of(c, msg_oh), msg_oh.msgnum, millis,
                               c.rtt_tracker_.current_rtt_),
                    decryption.plaintext)
       ELSE dropped(c)
  ELSE IF newer(msg_oh.peer_segnum, c.current_peer_segnum_) /\ decryption.good_tag
  THEN confirm(c, msg_oh, millis, decryption.plaintext)
  ELSE dropped(c)

\* handle_message from the unpacked header on, at clock reading millis
handle_unpacked(c, msg_oh, decryption, millis) ==
  IF msg_oh.peer_segnum = 0 THEN dropped(c)
  ELSE IF ~msg_my_segnum_good(c, msg_oh)
  THEN IF msg_oh.peer_segnum <= c.current_peer_segnum_ THEN dropped(c)
       ELSE IF decryption.good_tag
       THEN The({respond(response) :
                   response \in {create_packet(c, <<>>, msg_oh.peer_segnum)}})
       ELSE dropped(c)
  ELSE IF \/ msg_oh.peer_segnum = c.current_peer_segnum_
          \/ msg_oh.peer_segnum = c.old_peer_segnum_
  THEN IF ~have_seen_msgnum(tracker_of(c, msg_oh), msg_oh.msgnum) /\ decryption.good_tag
       THEN deliver(c, msg_oh.peer_segnum = c.current_peer_segnum_,
                    log_msgnum(tracker_of(c, msg_oh), msg_oh.msgnum, millis,
                               c.rtt_tracker_.current_rtt_),
                    decryption.plaintext)
       ELSE dropped(c)
  ELSE IF newer(msg_oh.peer_segnum, c.current_peer_segnum_) /\ decryption.good_tag
  THEN confirm(c, msg_oh, millis, decryption.plaintext)
  ELSE dropped(c)

\* handle_message at clock reading millis: the Connection it leaves, the
\* packets it sends and what it writes to fifo_to_user_
handle_message(c, message_data, millis) ==
  handle_unpacked(c, unpack_header(message_data),
                  decrypt(hkdf_expand(c.peer_id_, c.self_id_), message_data,
                          unpack_header(message_data).ad, unpack_header(message_data).iv),
                  millis)

\* the name of the state of a Connection
StateOf(c) ==
  IF c.current_peer_segnum_ = 0 THEN "Closed"
  ELSE IF c.old_peer_segnum_ = 0 THEN "Open"
  ELSE "TwoSeg"

\* a bug: read returns the newest bytes of the FIFO, not the oldest
fifo_read_newest(fifo) ==
  SubSeq(fifo, Len(fifo) - Min(Len(fifo), MaxPayload) + 1, Len(fifo))

\* fifo_from_user_.read(max_packet_size_ - (outer_header_len + tag_len)):
\* the bytes waiting in the FIFO, at most one packet's worth
fifo_read(fifo) == SubSeq(fifo, 1, Min(Len(fifo), MaxPayload))

\* a bug: the hello packet is sent on every pass of the loop
hello_every_pass(hello_packet_sent) == TRUE

\* not hello_packet_sent
hello_due(hello_packet_sent) == ~hello_packet_sent

NoPromotion == [p1 |-> 0, p2 |-> 0, emitted |-> {}]

\* the record of a send: the packet, what it is, and current_peer_segnum_
\* when it was made
Sent(packet, kind, c) ==
  [packet |-> packet, kind |-> kind, peer |-> c.current_peer_segnum_,
   local |-> c.current_local_segnum_, next |-> c.local_next_msgnum_]

\* the record kept beside a run of move_data: the first promotion of a peer
\* segment number in a Connection that was open, with the receiver segment
\* numbers of the packets sent since
Promoted(first, before, after, message) ==
  IF /\ first.p2 = 0
     /\ before.current_peer_segnum_ # 0
     /\ before.old_peer_segnum_ = 0
     /\ after.current_peer_segnum_ # before.current_peer_segnum_
     /\ message.recv_segnum = before.current_local_segnum_
  THEN [p1 |-> before.current_peer_segnum_, p2 |-> after.current_peer_segnum_,
        emitted |-> {}]
  ELSE first

Emitted(first, packets) ==
  IF first.p2 = 0 THEN first
  ELSE [first EXCEPT !.emitted = @ \cup {packets[i].recv_segnum : i \in 1..Len(packets)}]

\* One pass of the loop of move_data.  s holds the Connection, its message
\* queue and from-user FIFO and the locals of move_data; beside them it
\* keeps the record of the run: packets sent, writes to fifo_to_user_, bytes
\* read, messages handled, and the packets accepted so far.

\* first half of a pass, the queue holding a message: it is handled
received(s, udp_message, handled) ==
  [s EXCEPT
     !.conn = handled.conn,
     !.message_queue_ = Tail(s.message_queue_),
     !.no_more_data = FALSE,
     !.sent = s.sent \o [i \in 1..Len(handled.sent) |->
                           Sent(handled.sent[i], "response", s.conn)],
     !.wrote = s.wrote \o handled.wrote,
     !.events = Append(s.events, [message |-> udp_message,
                                  replay  |-> udp_message \in s.accepted,
                                  fresh   |-> \A a \in s.accepted :
                                                \/ a.send_segnum # udp_message.send_segnum
                                                \/ a.msgnum # udp_message.msgnum,
                                  earlier |-> s.accepted,
                                  before  |-> s.conn,
                                  after   |-> handled.conn,
                                  sent    |-> handled.sent,
                                  wrote   |-> handled.wrote,
                                  promo   |-> s.promo]),
     !.accepted = IF handled.wrote # <<>> THEN s.accepted \cup {udp_message}
                  ELSE s.accepted,
     !.promo = Emitted(Promoted(s.promo, s.conn, handled.conn, udp_message),
                       handled.sent)]

receive_pass(s, millis) ==
  IF s.message_queue_ # <<>>
  THEN The({received(s, Head(s.message_queue_), handled) :
              handled \in {handle_message(s.conn, Head(s.message_queue_), millis)}})
  ELSE [s EXCEPT !.no_more_data = TRUE]

\* second half of a pass, the Connection closed: a hello packet
hello_sent(s, hello, millis) ==
  [s EXCEPT
     !.conn = [hello.conn EXCEPT !.last_hello_packet_sent_ = millis],
     !.sent = Append(s.sent, Sent(hello.packet, "hello", s.conn)),
     !.promo = Emitted(s.promo, <<hello.packet>>),
     !.hello_packet_sent = TRUE]

\* second half of a pass, the Connection open: a packet of data
data_sent(s, fifo_data, data) ==
  [s EXCEPT
     !.conn = data.conn,
     !.fifo_from_user_ = SubSeq(s.fifo_from_user_, Len(fifo_data) + 1,
                                Len(s.fifo_from_user_)),
     !.no_more_data = FALSE,
     !.sent = Append(s.sent, Sent(data.packet, "data", s.conn)),
     !.promo = Emitted(s.promo, <<data.packet>>),
     !.read = s.read \o fifo_data]

send_pass(s, millis) ==
  IF s.conn.current_peer_segnum_ = 0
  THEN IF hello_due(s.hello_packet_sent) /\ s.fifo_from_user_ # <<>>
       THEN The({hello_sent(s, hello, millis) :
                   hello \in {create_packet(s.conn, <<>>, 0)}})
       ELSE s
  ELSE IF Len(fifo_read(s.fifo_from_user_)) > 0
       THEN The({data_sent(s, fifo_read(s.fifo_from_user_), data) :
                   data \in {create_packet(s.conn, fifo_read(s.fifo_from_user_), 0)}})
       ELSE s

move_data_pass(s, millis) ==
  The({send_pass(s1, millis) : s1 \in {receive_pass(s, millis)}})

RECURSIVE move_data_loop(_, _, _, _)
move_data_loop(s, i, loop_max, millis) ==
  IF i < loop_max /\ ~s.no_more_data
  THEN The({move_data_loop(s2, i + 1, loop_max, millis) :
              s2 \in {move_data_pass(s, millis)}})
  ELSE s

\* move_data(loop_max) at clock reading millis
move_data(c, queue, fifo, loop_max, millis, accepted_so_far, promotion) ==
  move_data_loop([conn |-> c, message_queue_ |-> queue, fifo_from_user_ |-> fifo,
                  no_more_data |-> FALSE, hello_packet_sent |-> FALSE,
                  sent |-> <<>>, wrote |-> <<>>, read |-> <<>>, events |-> <<>>,
                  accepted |-> accepted_so_far, promo |-> promotion],
                 0, loop_max, millis)

(***************************************************************************)
(* A Connection and what is around it: the user writing to the from-user   *)
(* FIFO, the dispatcher adding datagrams to message_queue_ and calling     *)
(* move_data, the clock.                                                   *)
(***************************************************************************)
\* the first value the generator of a run returns: at least one more than
\* the value the files were installed with
FirstSegnum == MaxInstalled + 1

NoMove ==
  [host |-> "none", loop_max |-> 0, closed |-> FALSE, pending |-> FALSE,
   sent |-> <<>>, wrote |-> <<>>, read |-> <<>>, events |-> <<>>]

ConnInit ==
  /\ conn = [h \in Hosts |-> Connection(h, FirstSegnum)]
  /\ message_queue_ = [h \in Hosts |-> <<>>]
  /\ fifo_from_user_ = [h \in Hosts |-> <<>>]
  /\ fifo_to_user_ = [h \in Hosts |-> <<>>]
  /\ written = [h \in Hosts |-> 0]
  /\ last_move = NoMove
  /\ accepted = {}
  /\ promo = NoPromotion

\* the user writes one more byte to the from-user FIFO of host h; the bytes
\* of a stream are numbered 1, 2, ...
UserWrite(h, bytes_max) ==
  /\ written[h] < bytes_max
  /\ written' = [written EXCEPT ![h] = @ + 1]
  /\ fifo_from_user_' = [fifo_from_user_ EXCEPT ![h] = Append(@, written[h] + 1)]
  /\ UNCHANGED <<conn, message_queue_, fifo_to_user_, last_move, accepted, promo>>

\* add_message: a datagram received for the Connection of host h
AddMessage(h, message, queue_max) ==
  /\ Len(message_queue_[h]) < queue_max
  /\ message_queue_' = [message_queue_ EXCEPT ![h] = Append(@, message)]
  /\ UNCHANGED <<conn, fifo_from_user_, fifo_to_user_, written, last_move, accepted, promo>>

\* the local segment numbers of h that a packet of h has carried so far
KnownLocal(h) ==
  IF conn[h].local_next_msgnum_ = 1 /\ conn[h].old_local_segnum_ = 0 THEN {}
  ELSE FirstSegnum..conn[h].current_local_segnum_

\* a packet the peer of h made for h
PeerPacket(h, my_segnum, peer_segnum, msgnum, plaintext) ==
  [recv_segnum |-> my_segnum,
   send_segnum |-> peer_segnum,
   msgnum      |-> msgnum,
   sealed      |-> encrypt(hkdf_expand(PeerOf(h), h), plaintext, my_segnum,
                           <<peer_segnum, msgnum>>),
   altered     |-> "no"]

Moved(h, loop_max) ==
  move_data(conn[h], message_queue_[h], fifo_from_user_[h], loop_max, now,
            accepted, promo)

MoveRecord(h, loop_max, r) ==
  [host |-> h, loop_max |-> loop_max,
   closed |-> conn[h].current_peer_segnum_ = 0,
   pending |-> fifo_from_user_[h] # <<>>,
   sent |-> r.sent, wrote |-> r.wrote, read |-> r.read, events |-> r.events]

\* what a run r of move_data leaves in the Connection of host h
MoveDone(h, loop_max, r) ==
  /\ conn' = [conn EXCEPT ![h] = r.conn]
  /\ message_queue_' = [message_queue_ EXCEPT ![h] = r.message_queue_]
  /\ fifo_from_user_' = [fifo_from_user_ EXCEPT ![h] = r.fifo_from_user_]
  /\ last_move' = MoveRecord(h, loop_max, r)
  /\ accepted' = r.accepted
  /\ promo' = r.promo

\* move_data(loop_max) on the Connection of host h, the network being
\* anyone's: what it sends is on record in last_move only, and the reader
\* of fifo_to_user_ takes what is written at once
MoveDataAlone(h, loop_max, rollovers) ==
  /\ \E r \in {Moved(h, loop_max)} :
       /\ r.conn.current_local_segnum_ <= FirstSegnum + rollovers
       /\ MoveDone(h, loop_max, r)
  /\ UNCHANGED <<fifo_to_user_, written>>

ConnTick == Tick /\ UNCHANGED <<genvars, connvars, sessvars>>

\* The peer sends data packets under one segment number, one for the first
\* message number of each block of the tracker, in any order; any packet may
\* come again.
ReplayMsgnums == {Max(1, b * block_size) : b \in 0..(max_blocks - 1)}

ReplayNext ==
  \/ UserWrite("A", 1) /\ UNCHANGED <<genvars, trackervars, sessvars>>
  \/ \E msgnum \in ReplayMsgnums, my_segnum \in KnownLocal("A") :
       AddMessage("A", PeerPacket("A", my_segnum, FirstSegnum, msgnum, <<msgnum>>), 1)
       /\ UNCHANGED <<genvars, trackervars, sessvars>>
  \/ \E loop_max \in 1..MaxLoop : MoveDataAlone("A", loop_max, 0)
       /\ UNCHANGED <<genvars, trackervars, sessvars>>
  \/ ConnTick

\* The peer sends data packets under one segment number with the message
\* numbers of the first two blocks of the tracker, in any order; any packet
\* may come again.
ReorderNext ==
  \/ UserWrite("A", 1) /\ UNCHANGED <<genvars, trackervars, sessvars>>
  \/ \E msgnum \in 1..((2 * block_size) - 1), my_segnum \in KnownLocal("A") :
       AddMessage("A", PeerPacket("A", my_segnum, FirstSegnum, msgnum, <<msgnum>>), MaxLoop)
       /\ UNCHANGED <<genvars, trackervars, sessvars>>
  \/ \E loop_max \in 1..MaxLoop : MoveDataAlone("A", loop_max, 0)
       /\ UNCHANGED <<genvars, trackervars, sessvars>>
  \/ ConnTick

\* The peer sends under several segment numbers of its own, with our
\* segment number, or none (a hello packet), or one of an earlier run of
\* the program (below FirstSegnum: a packet kept from then); anyone on the
\* network may change one field of a packet of the peer, or its ciphertext
\* or tag.
PeerSegnums == FirstSegnum..(FirstSegnum + MaxPeerRollovers)
MaxTamper == FirstSegnum + MaxPeerRollovers
HeaderFields == {"recv_segnum", "send_segnum", "msgnum"}

Tamper(packet, field, value) ==
  CASE field = "recv_segnum" -> [packet EXCEPT !.recv_segnum = value]
    [] field = "send_segnum" -> [packet EXCEPT !.send_segnum = value]
    [] field = "msgnum"      -> [packet EXCEPT !.msgnum = value]
    [] OTHER                 -> [packet EXCEPT !.altered = field]

PeerSends(h, queue_max, peer_segnums, msgnum_max) ==
  \E my_segnum \in 0..(FirstSegnum - 1) \cup KnownLocal(h), peer_segnum \in peer_segnums,
     msgnum \in 1..msgnum_max :
    AddMessage(h, PeerPacket(h, my_segnum, peer_segnum, msgnum, <<msgnum>>), queue_max)

TamperedArrives(h, queue_max, msgnum_max) ==
  \E my_segnum \in {0} \cup KnownLocal(h), peer_segnum \in PeerSegnums,
     msgnum \in 1..msgnum_max, field \in HeaderFields \cup {"ciphertext", "tag"},
     value \in 0..MaxTamper :
    /\ field \in HeaderFields =>
         value # PeerPacket(h, my_segnum, peer_segnum, msgnum, <<msgnum>>)[field]
    /\ field \notin HeaderFields => value = 0
    /\ AddMessage(h, Tamper(PeerPacket(h, my_segnum, peer_segnum, msgnum, <<msgnum>>),
                            field, value), queue_max)

PeerNext ==
  \/ UserWrite("A", MaxUserBytes) /\ UNCHANGED <<genvars, trackervars, sessvars>>
  \/ PeerSends("A", 1, PeerSegnums, MaxPeerMsgnum) /\ UNCHANGED <<genvars, trackervars, sessvars>>
  \/ \E loop_max \in 1..MaxLoop : MoveDataAlone("A", loop_max, 0)
       /\ UNCHANGED <<genvars, trackervars, sessvars>>

TamperNext ==
  \/ UserWrite("A", 1) /\ UNCHANGED <<genvars, trackervars, sessvars>>
  \/ PeerSends("A", 1, PeerSegnums, 1) /\ UNCHANGED <<genvars, trackervars, sessvars>>
  \/ TamperedArrives("A", 1, 1) /\ UNCHANGED <<genvars, trackervars, sessvars>>
  \/ MoveDataAlone("A", 1, 0) /\ UNCHANGED <<genvars, trackervars, sessvars>>

\* The Connection is kept waiting: move_data is called again and again with
\* bytes pending, while packets of the peer arrive, up to two at a time.
HelloNext ==
  \/ UserWrite("A", 1) /\ UNCHANGED <<genvars, trackervars, sessvars>>
  \/ PeerSends("A", MaxLoop, {FirstSegnum}, 1) /\ UNCHANGED <<genvars, trackervars, sessvars>>
  \/ \E loop_max \in 1..MaxLoop : MoveDataAlone("A", loop_max, MaxRollovers)
       /\ UNCHANGED <<genvars, trackervars, sessvars>>

\* a packet the Connection of h sent in its last run of move_data comes back
\* to it unchanged
Reflect(h, queue_max) ==
  /\ last_move.host = h
  /\ \E i \in 1..Len(last_move.sent) : AddMessage(h, last_move.sent[i].packet, queue_max)

\* The Connection goes through several local segment numbers, hello packets
\* using up the message numbers of each; the peer sends under one segment
\* number, addressed to any local segment number used so far, to none, or
\* to one of an earlier run; packets of the Connection come back to it.
RolloverNext ==
  \/ UserWrite("A", 1) /\ UNCHANGED <<genvars, trackervars, sessvars>>
  \/ PeerSends("A", 1, {FirstSegnum}, MaxPeerMsgnum) /\ UNCHANGED <<genvars, trackervars, sessvars>>
  \/ Reflect("A", 1) /\ UNCHANGED <<genvars, trackervars, sessvars>>
  \/ \E loop_max \in 1..MaxLoop : MoveDataAlone("A", loop_max, MaxLocalRollovers)
       /\ UNCHANGED <<genvars, trackervars, sessvars>>

\* Two Connections joined by a network that delivers every datagram once
\* and in the order sent: what one sends is added to message_queue_ of the
\* other.  The reader of fifo_to_user_ takes what is written at once, so a
\* write never waits; fifo_to_user_ keeps all that was written.
RECURSIVE Flatten(_)
Flatten(writes) ==
  IF writes = <<>> THEN <<>> ELSE Head(writes) \o Flatten(Tail(writes))

Packets(sent) == [i \in 1..Len(sent) |-> sent[i].packet]

\* the Session gives a Connection time on a worker thread when a datagram
\* came in for it or its from-user FIFO has data; a Connection that has
\* nothing to handle and no peer segment number repeats its hello packet
\* only while fewer than MaxInFlight datagrams wait at the peer
HasWork(h) ==
  \/ message_queue_[h] # <<>>
  \/ /\ fifo_from_user_[h] # <<>>
     /\ conn[h].current_peer_segnum_ = 0 =>
          Len(message_queue_[PeerOf(h)]) < MaxInFlight

MoveDataTo(h, r) ==
  /\ conn' = [conn EXCEPT ![h] = r.conn]
  /\ message_queue_' = [message_queue_ EXCEPT
                          ![h] = r.message_queue_,
                          ![PeerOf(h)] = @ \o Packets(r.sent)]
  /\ fifo_from_user_' = [fifo_from_user_ EXCEPT ![h] = r.fifo_from_user_]
  /\ fifo_to_user_' = [fifo_to_user_ EXCEPT ![h] = @ \o Flatten(r.wrote)]

MoveData(h, loop_max) ==
  /\ HasWork(h)
  /\ \E r \in {move_data(conn[h], message_queue_[h], fifo_from_user_[h],
                         loop_max, now, {}, NoPromotion)} : MoveDataTo(h, r)
  /\ UNCHANGED <<written, last_move, accepted, promo>>

Worker(h) ==
  \E loop_max \in 1..MaxLoop : MoveData(h, loop_max) /\ UNCHANGED <<genvars, trackervars, sessvars>>

E2ENext ==
  \/ \E h \in Hosts : UserWrite(h, MaxUserBytes) /\ UNCHANGED <<genvars, trackervars, sessvars>>
  \/ Worker("A")
  \/ Worker("B")
  \/ ConnTick

\* The program of host B is stopped and started again while the Connection
\* of A is open: the new Connection of B has a segment number above all of
\* the run before and no peer segment number, and its user has one more
\* byte for it; the datagrams that were on their way to B reach the new
\* program or are lost with the old one.
PeerRestart ==
  /\ StateOf(conn["A"]) = "Open"
  /\ written["B"] <= MaxUserBytes
  /\ \E first_segnum \in conn["B"].segnumgen_..(conn["B"].segnumgen_ + 1) :
       conn' = [conn EXCEPT !["B"] = Connection("B", first_segnum)]
  /\ \E queue \in {message_queue_["B"], <<>>} :
       message_queue_' = [message_queue_ EXCEPT !["B"] = queue]
  /\ written' = [written EXCEPT !["B"] = MaxUserBytes + 1]
  /\ fifo_from_user_' = [fifo_from_user_ EXCEPT !["B"] = <<MaxUserBytes + 1>>]
  /\ UNCHANGED <<fifo_to_user_, last_move, accepted, promo>>

RestartNext ==
  \/ \E h \in Hosts : UserWrite(h, MaxUserBytes) /\ UNCHANGED <<genvars, trackervars, sessvars>>
  \/ Worker("A")
  \/ Worker("B")
  \/ PeerRestart /\ UNCHANGED <<genvars, trackervars, sessvars>>

(***************************************************************************)
(* The Session (Session.cpp).  What is done while session_lock_ is held is *)
(* one step; a thread that calls poll() or waits on session_condvar_ takes *)
(* its next step when the call returns.                                    *)
(***************************************************************************)
ConnIds == 1..NumConns
\* connection_worker_threads_
Workers == DOMAIN worker

\* the constructor, passed num_connection_workers: every Connection is
\* closed and monitored, the threads are at the start of their functions
SessConstructed(num_connection_workers) ==
  /\ connections_ = [id \in ConnIds |->
                       [message_queue_ |-> <<>>, fifo |-> 0, open |-> FALSE,
                        second |-> FALSE]]
  /\ monitor_fds_ = ConnIds
  /\ connection_queue_ = <<>>
  /\ connection_dwell_loops_ = dwell_max
  /\ stopping_ = FALSE
  /\ active_ = TRUE
  /\ monitor_wake = {}
  /\ udp_thread_stop = FALSE
  /\ worker = [w \in 1..num_connection_workers |->
                 [pc |-> "lock", conn_id |-> 0, loops |-> 0]]
  /\ monitor = [pc |-> "enqueue", poll_fds |-> {}, revents |-> {}, num_to_notify |-> 0]
  /\ udp_thread = [pc |-> "poll", conn_id |-> 0]
  /\ stopper = "running"
  /\ terminated = FALSE
  /\ udp_sent = EmptyBag

SessInit == SessConstructed(NumWorkers)

\* a bug: a Connection that is being worked on is put in the queue
enqueue_connection_unflagged(s, conn_id) ==
  IF \E i \in 1..Len(s.connection_queue_) : s.connection_queue_[i] = conn_id
  THEN s
  ELSE [s EXCEPT !.connection_queue_ = Append(@, conn_id),
                 !.monitor_fds_ = @ \ {conn_id}]

\* enqueue_connection on s = [connections_, connection_queue_, monitor_fds_]
enqueue_connection(s, conn_id) ==
  IF s.connections_[conn_id].second THEN s
  ELSE IF \E i \in 1..Len(s.connection_queue_) : s.connection_queue_[i] = conn_id
  THEN s
  ELSE [s EXCEPT !.connection_queue_ = Append(@, conn_id),
                 !.monitor_fds_ = @ \ {conn_id}]

\* the loop of fifo_monitor_thread_func over poll_fds: found[fd] is
\* (*it).second of the iterator monitor_fds_.find(fd) gives
RECURSIVE enqueue_each(_, _, _)
enqueue_each(s, fds, found) ==
  IF fds = {} THEN s
  ELSE LET fd == CHOOSE i \in fds : \A j \in fds : i <= j
       IN enqueue_each(enqueue_connection(s, found[fd]), fds \ {fd}, found)

\* Connection::move_data as the Session sees it: each pass takes a message
\* from message_queue_ (one of the peer with our segment number opens the
\* Connection) and, if the Connection is open, data from the FIFO
RECURSIVE data_moved(_, _)
data_moved(c, loop_max) ==
  IF loop_max = 0 THEN c
  ELSE LET valid == c.message_queue_ # <<>>
           handled == IF valid
                      THEN [c EXCEPT !.message_queue_ = Tail(@),
                                     !.open = @ \/ Head(c.message_queue_) = "confirming"]
                      ELSE c
           read == handled.open /\ handled.fifo > 0
           sent == IF read THEN [handled EXCEPT !.fifo = @ - 1] ELSE handled
       IN IF valid \/ read THEN data_moved(sent, loop_max - 1) ELSE sent

is_data(c) == c.message_queue_ # <<>> \/ (c.open /\ c.fifo > 0)

SessState ==
  [connections_ |-> connections_, connection_queue_ |-> connection_queue_,
   monitor_fds_ |-> monitor_fds_]

SessStateIs(s) ==
  /\ connections_' = s.connections_
  /\ connection_queue_' = s.connection_queue_
  /\ monitor_fds_' = s.monitor_fds_

\* session_condvar_.notify_one() called n times: up to n of the threads
\* that wait are woken
notified(n) ==
  LET waiting == {w \in Workers : worker[w].pc = "wait"}
  IN \E woken \in SUBSET waiting :
       /\ Cardinality(woken) = Min(n, Cardinality(waiting))
       /\ worker' = [w \in Workers |->
                       IF w \in woken THEN [worker[w] EXCEPT !.pc = "lock"]
                       ELSE worker[w]]

connection_worker_thread_func(w) ==
  /\ ~terminated
  /\ \/ /\ worker[w].pc = "lock"
        /\ connection_queue_ = <<>> /\ ~stopping_
        /\ worker' = [worker EXCEPT ![w].pc = "wait"]
        /\ UNCHANGED <<connections_, monitor_fds_, connection_queue_,
                       connection_dwell_loops_, monitor_wake>>
     \/ /\ worker[w].pc = "lock"
        /\ stopping_
        /\ worker' = [worker EXCEPT ![w].pc = "exited"]
        /\ UNCHANGED <<connections_, monitor_fds_, connection_queue_,
                       connection_dwell_loops_, monitor_wake>>
     \/ /\ worker[w].pc = "lock"
        /\ connection_queue_ # <<>> /\ ~stopping_
        /\ LET conn_id == connection_queue_[1]
               num_active_connections == Cardinality(ConnIds) - Cardinality(monitor_fds_)
               loops == IF connection_dwell_loops_ > dwell_min
                           /\ num_active_connections > Cardinality(Workers)
                        THEN connection_dwell_loops_ - 1
                        ELSE IF connection_dwell_loops_ < dwell_max
                        THEN connection_dwell_loops_ + 1
                        ELSE connection_dwell_loops_
           IN /\ connection_queue_' = Tail(connection_queue_)
              /\ connections_' = [connections_ EXCEPT ![conn_id].second = TRUE]
              /\ connection_dwell_loops_' = loops
              /\ worker' = [worker EXCEPT ![w] = [pc |-> "move_data", conn_id |-> conn_id,
                                                  loops |-> loops]]
        /\ UNCHANGED <<monitor_fds_, monitor_wake>>
     \/ /\ worker[w].pc = "move_data"
        /\ connections_' = [connections_ EXCEPT
                              ![worker[w].conn_id] = data_moved(@, worker[w].loops)]
        /\ worker' = [worker EXCEPT ![w].pc = "moved"]
        /\ UNCHANGED <<monitor_fds_, connection_queue_, connection_dwell_loops_,
                       monitor_wake>>
     \/ /\ worker[w].pc = "moved"
        /\ LET conn_id == worker[w].conn_id
               s == [SessState EXCEPT !.connections_[conn_id].second = FALSE]
           IN IF is_data(connections_[conn_id])
              THEN SessStateIs(enqueue_connection(s, conn_id))
                   /\ UNCHANGED monitor_wake
              ELSE SessStateIs([s EXCEPT !.monitor_fds_ = @ \cup {conn_id}])
                   /\ monitor_wake' = monitor_wake \cup {0}
        /\ worker' = [worker EXCEPT ![w] = [pc |-> "lock", conn_id |-> 0, loops |-> 0]]
        /\ UNCHANGED connection_dwell_loops_
  /\ UNCHANGED <<stopping_, active_, udp_thread_stop, monitor, udp_thread, stopper,
                 terminated, udp_sent, genvars, trackervars, connvars>>

udp_socket_thread_func ==
  /\ ~terminated
  /\ \/ /\ udp_thread.pc = "poll"
        /\ udp_thread_stop
        /\ udp_thread' = [udp_thread EXCEPT !.pc = "exited"]
        /\ UNCHANGED <<connections_, monitor_fds_, connection_queue_, worker>>
     \/ /\ udp_thread.pc = "poll"
        /\ ~udp_thread_stop
        /\ \E conn_id \in ConnIds, message \in {"confirming"} :
             /\ Len(connections_[conn_id].message_queue_) < MaxQueued
             /\ connections_' = [connections_ EXCEPT
                                   ![conn_id].message_queue_ = Append(@, message)]
             /\ udp_thread' = [pc |-> "enqueue", conn_id |-> conn_id]
        /\ UNCHANGED <<monitor_fds_, connection_queue_, worker>>
     \/ /\ udp_thread.pc = "enqueue"
        /\ SessStateIs(enqueue_connection(SessState, udp_thread.conn_id))
        /\ udp_thread' = [udp_thread EXCEPT !.pc = "notify"]
        /\ UNCHANGED worker
     \/ /\ udp_thread.pc = "notify"
        /\ notified(1)
        /\ udp_thread' = [pc |-> "poll", conn_id |-> 0]
        /\ UNCHANGED <<connections_, monitor_fds_, connection_queue_>>
  /\ UNCHANGED <<connection_dwell_loops_, stopping_, active_, monitor_wake,
                 udp_thread_stop, monitor, stopper, terminated, udp_sent, genvars,
                 trackervars, connvars>>

\* monitor_fds_.find(fd) for a descriptor that was erased since poll_fds was
\* built returns end(), and (*it).second is then not defined: the thread
\* passes an id that is no Connection's, enqueue_connection throws and
\* std::terminate() is called, or it passes the id of some Connection
fifo_monitor_thread_func ==
  /\ ~terminated
  /\ \/ /\ monitor.pc = "enqueue"
        /\ \E found \in [monitor.revents -> ConnIds \cup {0}] :
             /\ \A fd \in monitor.revents \cap monitor_fds_ : found[fd] = fd
             /\ IF \E fd \in monitor.revents : found[fd] = 0
                THEN /\ terminated' = TRUE
                     /\ UNCHANGED <<connections_, monitor_fds_, connection_queue_, monitor>>
                ELSE /\ \E s \in {enqueue_each(SessState, monitor.revents, found)} :
                          /\ SessStateIs(s)
                          /\ monitor' = [pc |-> "notify", poll_fds |-> s.monitor_fds_,
                                         revents |-> {},
                                         num_to_notify |-> Cardinality(monitor.revents)]
                     /\ UNCHANGED terminated
        /\ UNCHANGED <<monitor_wake, worker>>
     \/ /\ monitor.pc = "notify"
        /\ notified(monitor.num_to_notify)
        /\ monitor' = [monitor EXCEPT !.pc = "poll", !.num_to_notify = 0]
        /\ UNCHANGED <<connections_, monitor_fds_, connection_queue_, monitor_wake,
                       terminated>>
     \/ /\ monitor.pc = "poll"
        /\ monitor_wake # {} \/ \E fd \in monitor.poll_fds : connections_[fd].fifo > 0
        /\ monitor' = [monitor EXCEPT
                         !.pc = "read",
                         !.revents = {fd \in monitor.poll_fds : connections_[fd].fifo > 0}]
        /\ UNCHANGED <<connections_, monitor_fds_, connection_queue_, monitor_wake,
                       worker, terminated>>
     \/ /\ monitor.pc = "read"
        /\ monitor_wake' = {}
        /\ monitor' = [monitor EXCEPT !.pc = IF 1 \in monitor_wake THEN "exited"
                                             ELSE "enqueue"]
        /\ UNCHANGED <<connections_, monitor_fds_, connection_queue_, worker, terminated>>
  /\ UNCHANGED <<connection_dwell_loops_, stopping_, active_, udp_thread_stop,
                 udp_thread, stopper, udp_sent, genvars, trackervars, connvars>>

stop ==
  /\ ~terminated
  /\ \/ /\ stopper = "running"
        /\ active_
        /\ stopping_' = TRUE
        /\ stopper' = "notify_all"
        /\ UNCHANGED <<worker, monitor_wake, udp_thread_stop, active_>>
     \/ /\ stopper = "notify_all"
        /\ notified(Cardinality(Workers))
        /\ stopper' = "wake_monitor"
        /\ UNCHANGED <<stopping_, monitor_wake, udp_thread_stop, active_>>
     \/ /\ stopper = "wake_monitor"
        /\ monitor_wake' = monitor_wake \cup {1}
        /\ stopper' = "write_char_to_pipe"
        /\ UNCHANGED <<stopping_, worker, udp_thread_stop, active_>>
     \/ /\ stopper = "write_char_to_pipe"
        /\ udp_thread_stop' = TRUE
        /\ stopper' = "join"
        /\ UNCHANGED <<stopping_, worker, monitor_wake, active_>>
     \/ /\ stopper = "join"
        /\ \A w \in Workers : worker[w].pc = "exited"
        /\ monitor.pc = "exited"
        /\ udp_thread.pc = "exited"
        /\ active_' = FALSE
        /\ stopper' = "returned"
        /\ UNCHANGED <<stopping_, worker, monitor_wake, udp_thread_stop>>
  /\ UNCHANGED <<connections_, monitor_fds_, connection_queue_, connection_dwell_loops_,
                 monitor, udp_thread, terminated, udp_sent, genvars, trackervars,
                 connvars>>

\* the user writes to the from-user FIFO of a Connection
FifoWritten ==
  /\ ~terminated
  /\ \E conn_id \in ConnIds :
       /\ connections_[conn_id].fifo < MaxWritten
       /\ connections_' = [connections_ EXCEPT ![conn_id].fifo = @ + 1]
  /\ UNCHANGED <<monitor_fds_, connection_queue_, connection_dwell_loops_, stopping_,
                 active_, monitor_wake, udp_thread_stop, worker, monitor, udp_thread,
                 stopper, terminated, udp_sent, genvars, trackervars, connvars>>

SessNext ==
  \/ \E w \in Workers : connection_worker_thread_func(w)
  \/ udp_socket_thread_func
  \/ fifo_monitor_thread_func
  \/ stop
  \/ FifoWritten

(***************************************************************************)
(* The Connections of one host on its SegmentNumGenerator: the constructor *)
(* of a Connection and create_packet, when the message numbers are used    *)
(* up, call next_num(); the program stops and is started again.  The clock *)
(* is read in reserve_nums() only, so it is moved only while a thread is   *)
(* there: a change at another time is the same as one at the next read.    *)
(***************************************************************************)
\* the Connection a thread that calls next_num() works for
HostOf(t) == IF t % 2 = 1 THEN "A" ELSE "B"

NotConstructed(h) == [Connection(h, 0) EXCEPT !.segnumgen_ = 0]

NeedsSegnum(c) == c.current_local_segnum_ = 0 \/ c.local_next_msgnum_ > segnum_max

\* the packet create_packet returns is sent on udp_socket_
UdpSend(h, r) ==
  /\ conn' = [conn EXCEPT ![h] = [r.conn EXCEPT !.segnumgen_ = 0]]
  /\ udp_sent' = udp_sent (+) SetToBag({<<r.packet.send_segnum, r.packet.msgnum>>})
  /\ UNCHANGED <<message_queue_, fifo_from_user_, fifo_to_user_, written, last_move,
                 accepted, promo, connections_, monitor_fds_, connection_queue_,
                 connection_dwell_loops_, stopping_, active_, monitor_wake,
                 udp_thread_stop, worker, monitor, udp_thread, stopper, terminated>>

\* next_num() has returned value to the constructor of the Connection or to
\* create_packet
SegnumTaken(h, value) ==
  IF conn[h].current_local_segnum_ = 0
  THEN /\ conn' = [conn EXCEPT ![h] = [Connection(h, value) EXCEPT !.segnumgen_ = 0]]
       /\ UNCHANGED <<message_queue_, fifo_from_user_, fifo_to_user_, written,
                      last_move, accepted, promo, sessvars>>
  ELSE \E data_bytes \in {<<>>, <<1>>}, peer_segnum \in 0..1 :
         UdpSend(h, create_packet([conn[h] EXCEPT !.segnumgen_ = value],
                                  data_bytes, peer_segnum))

\* a hello packet, an empty response or a data packet is made and sent
CreatePacket(h) ==
  /\ alive
  /\ ~NeedsSegnum(conn[h])
  /\ BagCardinality(udp_sent) < MaxSent
  /\ \E data_bytes \in {<<>>, <<1>>}, peer_segnum \in 0..1 :
       UdpSend(h, create_packet(conn[h], data_bytes, peer_segnum))

\* a Connection is given to one thread at a time: no other thread is
\* inside a call of next_num() for it
NonceNext ==
  \/ \E t \in Threads :
       /\ NeedsSegnum(conn[HostOf(t)])
       /\ \A other \in Threads : HostOf(other) = HostOf(t) => gpc[other] = "idle"
       /\ BagCardinality(udp_sent) < MaxSent
       /\ NextNumEnter(t) /\ UNCHANGED <<trackervars, connvars, sessvars>>
  \/ \E t \in Threads : ReserveRead(t) /\ UNCHANGED <<trackervars, connvars, sessvars>>
  \/ \E t \in Threads : ReserveCompute(t) /\ UNCHANGED <<trackervars, connvars, sessvars>>
  \/ \E t \in Threads : SaveFirst(t) /\ UNCHANGED <<trackervars, connvars, sessvars>>
  \/ \E t \in Threads : SaveSecond(t) /\ UNCHANGED <<trackervars, connvars, sessvars>>
  \/ \E t \in Threads :
       NextNumReturn(t) /\ SegnumTaken(HostOf(t), next_num_) /\ UNCHANGED trackervars
  \/ \E h \in Hosts : CreatePacket(h) /\ UNCHANGED <<genvars, trackervars>>
  \/ /\ \E t \in Threads : gpc[t] \in {"reserve", "clockwait"}
     /\ ClockChange /\ UNCHANGED <<trackervars, connvars, sessvars>>
  \/ Crash /\ UNCHANGED <<trackervars, connvars, sessvars>>
  \/ /\ Restart
     /\ conn' = [h \in Hosts |-> NotConstructed(h)]
     /\ UNCHANGED <<trackervars, message_queue_, fifo_from_user_, fifo_to_user_,
                    written, last_move, accepted, promo, sessvars>>

\* The program is started on files as an installation, a crash or a fault of
\* the disk can leave them: holding a number, or damaged in one of the ways
\* get_saved_segnum() looks for, or missing.
InitFiles ==
  /\ \E v \in 1..MaxInstalled :
       LET number == to_string(v)
           files == {FileOf(segnum_file_text(v)),
                     FileOf(number \o <<"X", "NL">> \o number \o <<"X">>),
                     FileOf(<<"SP">> \o number \o <<"NL", "SP">> \o number),
                     FileOf(number \o <<"SP", "NL">> \o number \o <<"SP">>),
                     FileOf(number \o <<"NL">> \o to_string(v + 1)),
                     FileOf(segnum_file_text(v) \o <<"NL">> \o number),
                     FileOf(number),
                     FileOf(segnum_file_text(segnum_max)),
                     FileOf(segnum_file_text(ullong_max + 1)),
                     NoFile}
       IN file_first \in files /\ file_second \in files
  /\ \E r \in 1..MaxReserved : GenConstructed(r)
  /\ clock \in 1..MaxClock
  /\ alive = TRUE
  /\ run = 1
  /\ returned = <<>>
  /\ thrown = ""
  /\ TrackerUnused
  /\ ConnInit
  /\ SessInit

FilesNext ==
  \/ \E t \in Threads : NextNumEnter(t) /\ UNCHANGED <<trackervars, connvars, sessvars>>
  \/ \E t \in Threads : ReserveRead(t) /\ UNCHANGED <<trackervars, connvars, sessvars>>
  \/ \E t \in Threads : ReserveCompute(t) /\ UNCHANGED <<trackervars, connvars, sessvars>>
  \/ \E t \in Threads : SaveFirst(t) /\ UNCHANGED <<trackervars, connvars, sessvars>>
  \/ \E t \in Threads : SaveSecond(t) /\ UNCHANGED <<trackervars, connvars, sessvars>>
  \/ \E t \in Threads : NextNumReturn(t) /\ UNCHANGED <<trackervars, connvars, sessvars>>
  \/ ClockChange /\ UNCHANGED <<trackervars, connvars, sessvars>>
  \/ Restart /\ UNCHANGED <<trackervars, connvars, sessvars>>

(***************************************************************************)
(* Specifications.  Each one runs one part of the program; the variables   *)
(* of the other parts stay as they are.                                    *)
(***************************************************************************)
vars == <<genvars, trackervars, connvars, sessvars>>

InitGen == GenInit /\ TrackerUnused /\ ConnInit /\ SessInit
SpecGen == InitGen /\ [][GenNext]_vars
SpecThrow == InitGen /\ [][ThrowNext]_vars

SpecFiles == InitFiles /\ [][FilesNext]_vars

InitTracker == GenUnused /\ TrackerInit /\ ConnInit /\ SessInit
SpecTracker == InitTracker /\ [][TrackerNext]_vars
SpecReset == InitTracker /\ [][ResetNext]_vars

InitConn == GenUnused /\ TrackerUnused /\ ConnInit /\ SessInit
SpecReplay == InitConn /\ [][ReplayNext]_vars
SpecReorder == InitConn /\ [][ReorderNext]_vars
SpecPeer == InitConn /\ [][PeerNext]_vars
SpecTamper == InitConn /\ [][TamperNext]_vars
SpecHello == InitConn /\ [][HelloNext]_vars
SpecRollover == InitConn /\ [][RolloverNext]_vars
SpecE2E ==
  InitConn /\ [][E2ENext]_vars /\ WF_vars(Worker("A")) /\ WF_vars(Worker("B"))
SpecRestart ==
  InitConn /\ [][RestartNext]_vars /\ WF_vars(Worker("A")) /\ WF_vars(Worker("B"))

\* The Connections of a host are made and send packets, over the runs of
\* the program.  The Session makes the generator with a reservation of twice
\* the number of its peers.
InitNonce ==
  /\ file_first = FileOf(segnum_file_text(1))
  /\ file_second = FileOf(segnum_file_text(1))
  /\ GenConstructed(MaxReserved)
  /\ clock = 1
  /\ alive = TRUE
  /\ run = 1
  /\ returned = <<>>
  /\ thrown = ""
  /\ TrackerUnused /\ SessInit
  /\ conn = [h \in Hosts |-> NotConstructed(h)]
  /\ message_queue_ = [h \in Hosts |-> <<>>]
  /\ fifo_from_user_ = [h \in Hosts |-> <<>>]
  /\ fifo_to_user_ = [h \in Hosts |-> <<>>]
  /\ written = [h \in Hosts |-> 0]
  /\ last_move = NoMove
  /\ accepted = {}
  /\ promo = NoPromotion
SpecNonce == InitNonce /\ [][NonceNext]_vars

\* The Session is made with fewer worker threads than Connections.
InitDwell == GenUnused /\ TrackerUnused /\ ConnInit /\ SessConstructed(NumConns - 1)
SpecDwell == InitDwell /\ [][SessNext]_vars

\* The Session runs; every thread that can take a step takes one in the end.
SpecSession ==
  /\ InitConn /\ [][SessNext]_vars
  /\ \A w \in 1..NumWorkers : WF_vars(connection_worker_thread_func(w))
  /\ WF_vars(udp_socket_thread_func /\ udp_thread.pc # "poll")
  /\ WF_vars(udp_socket_thread_func /\ udp_thread_stop)
  /\ WF_vars(fifo_monitor_thread_func)
  /\ WF_vars(stop /\ stopper # "running")

(***************************************************************************)
(* Claims about the segment number generator.                              *)
(***************************************************************************)
Returns == 1..Len(returned)

\* C1: whatever the interleaving of the threads that call next_num() on the
\* shared generator, and whatever the reservation size, no two calls of one
\* run return the same value.
C1_NoDuplicateSegnum ==
  \A i, j \in Returns :
    (i # j /\ returned[i].run = returned[j].run) => returned[i].val # returned[j].val

\* two threads got values in one run, the later one from a reservation made
\* in the middle of the run
C1_Witness ==
  \E i, j \in Returns :
    /\ i < j
    /\ returned[i].run = returned[j].run
    /\ returned[i].thread # returned[j].thread
    /\ returned[j].fresh

\* C2: every value returned in a later run is strictly greater than every
\* value returned in an earlier run on the same files, however the clock moved.
C2_MonotonicAcrossRestarts ==
  \A i, j \in Returns :
    returned[i].run < returned[j].run => returned[i].val < returned[j].val

\* a later run has returned a value although the clock now reads less than a
\* value of an earlier run
C2_Witness ==
  \E i, j \in Returns :
    /\ returned[i].run < returned[j].run
    /\ clock < returned[i].val

\* a file that parses, with a number at least as great as every value returned
ValidCeiling(f) ==
  LET s == get_saved_segnum(f)
  IN s > 0 /\ \A i \in Returns : returned[i].val <= s

\* C3: in every state, the states in the middle of a reservation included,
\* at least one of the two files parses as valid and holds a value at least
\* as great as every value next_num() has returned.
C3_OneFileAlwaysValid ==
  ValidCeiling(file_first) \/ ValidCeiling(file_second)

(***************************************************************************)
(* Claims about the replay tracker.                                        *)
(***************************************************************************)
Logged == {m \in Msgnums : tlog.last[m] >= 0}

\* C6: after any sequence of log_msgnum calls without reset, under any
\* round-trip time and any timing, have_seen_msgnum(m) is true for every
\* message number m that log_msgnum was called with.
C6_LoggedIsSeen ==
  \A m \in Logged : have_seen_msgnum(tracker, m)

\* C7: with msgnum_bound as the header computes it, every logged number at
\* or above msgnum_bound is reported seen, and every number from msgnum_bound
\* to below highest + block_size that was not logged is reported unseen.
C7_ExactAboveBound ==
  tlog.highest >= 0 =>
    /\ \A m \in Logged : m >= tlog.bound => have_seen_msgnum(tracker, m)
    /\ \A m \in tlog.bound..(tlog.highest + block_size - 1) :
         m \notin Logged => ~have_seen_msgnum(tracker, m)

\* the answer of have_seen_msgnum(m) is not the same after the step
AnswerChanges(m) == have_seen_msgnum(tracker', m) # have_seen_msgnum(tracker, m)

Events == {last_move.events[i] : i \in 1..Len(last_move.events)}

\* C4: a packet that the Connection accepted before (its payload was written
\* to fifo_to_user_) and that is delivered again unchanged causes no write
\* to fifo_to_user_ and no packet to be sent.
C4_ReplayDropped ==
  \A e \in Events : e.replay => e.wrote = <<>> /\ e.sent = <<>>


\* a packet that left the peer as it is: its header is the one that was
\* sealed, ciphertext and tag are untouched
Authentic(h, message) ==
  /\ message.altered = "no"
  /\ message.sealed.key = hkdf_expand(PeerOf(h), h)
  /\ message.sealed.additional = message.recv_segnum
  /\ message.sealed.iv = <<message.send_segnum, message.msgnum>>

\* C5: a packet of the peer with one header field, the ciphertext or the tag
\* changed is dropped whatever the state of the Connection: nothing is
\* written, nothing is sent, and the Connection (peer segment numbers and
\* trackers included) is as it was.
C5_TamperedDropped ==
  \A e \in Events :
    ~Authentic(last_move.host, e.message) =>
      /\ e.wrote = <<>>
      /\ e.sent = <<>>
      /\ e.after = e.before

\* with two peer segment numbers confirmed, a packet was handled that has
\* one header field changed and would pass every check but the decryption:
\* it carries our segment number, a confirmed peer segment number and a
\* message number not accepted before
C5_Witness ==
  \E e \in Events :
    /\ StateOf(e.before) = "TwoSeg"
    /\ ~Authentic(last_move.host, e.message)
    /\ e.message.altered = "no"
    /\ msg_my_segnum_good(e.before, unpack_header(e.message))
    /\ e.message.send_segnum = e.before.old_peer_segnum_
    /\ ~have_seen_msgnum(e.before.old_crypto_message_tracker_, e.message.msgnum)

Hellos == {i \in 1..Len(last_move.sent) : last_move.sent[i].kind = "hello"}

OneHello ==
  /\ Cardinality(Hellos) = 1
  /\ \A i \in Hellos : /\ last_move.sent[i].packet.sealed.plaintext = <<>>
                        /\ last_move.sent[i].packet.recv_segnum = 0
  /\ last_move.read = <<>>

\* C9, as stated: a run of move_data that starts with no peer segment number
\* and bytes pending sends exactly one hello packet (no data, receiver
\* segment number 0) and reads no byte, at any loop_max and however many
\* messages it handles, unless it handles a valid packet under the current
\* local segment number.
C9_AsStated ==
  /\ last_move.closed
  /\ last_move.pending
  /\ \A e \in Events : ~(/\ e.wrote # <<>>
                          /\ e.message.recv_segnum = e.before.current_local_segnum_)
  => OneHello

\* C9, amended: the same, unless the run handles a valid packet under the
\* current or the previous local segment number.
C9_OneHelloPerRun ==
  /\ last_move.closed
  /\ last_move.pending
  /\ \A e \in Events : e.wrote = <<>>
  => OneHello

\* a run with loop_max 2 that handled two messages of the peer, answered
\* both and stayed without a peer segment number
C9_Witness ==
  /\ last_move.closed
  /\ last_move.pending
  /\ last_move.loop_max = MaxLoop
  /\ Len(last_move.events) = MaxLoop
  /\ \A e \in Events : e.sent # <<>> /\ e.wrote = <<>>
  /\ Cardinality(Hellos) = 1


\* the bytes written so far to the from-user FIFO of host h
Stream(h) == [i \in 1..written[h] |-> i]

InOrder ==
  \A h \in Hosts :
    /\ Len(fifo_to_user_[PeerOf(h)]) <= written[h]
    /\ fifo_to_user_[PeerOf(h)] = SubSeq(Stream(h), 1, Len(fifo_to_user_[PeerOf(h)]))

ReadsFiles(t) == gpc[t] = "reserve" /\ gpc'[t] # "reserve"

\* one file is there and does not hold a usable number, the other holds one
OneFileDamaged(damage) ==
  \E f \in {<<file_first, file_second>>, <<file_second, file_first>>} :
    /\ f[1].exists
    /\ get_saved_segnum(f[1]) \in damage
    /\ get_saved_segnum(f[2]) > 0

\* every value handed out right after a reservation exceeds the number read
AboveSaved ==
  \A i \in Returns : returned[i].fresh => returned[i].val >= returned[i].saved + 1

NoUsableFile ==
  \A f \in {file_first, file_second} : ~f.exists \/ get_saved_segnum(f) = 0

\* C14: if both files are absent or malformed, next_num() fails with the
\* error "error reading saved segment number", returns no value and writes
\* to neither file; so does the call made again after it.
C14_NoUsableFile ==
  [][\A t \in Threads :
       (ReadsFiles(t) /\ NoUsableFile)
         => /\ thrown' = "error reading saved segment number"
            /\ ~alive'
            /\ returned' = returned
            /\ file_first' = file_first
            /\ file_second' = file_second]_vars

\* the call failed in the first run and again in the second
C14_Witness ==
  /\ run = 2
  /\ ~alive
  /\ thrown = "error reading saved segment number"
  /\ returned = <<>>
  /\ NoUsableFile

(***************************************************************************)
(* Scenario S1: both files hold s, reserved_ is r, next_num() is called    *)
(* r + 1 times in the first run.  In the model s is at most MaxInstalled   *)
(* and r at most MaxReserved; the scenario of the specification has s = 5  *)
(* and r = 3.                                                              *)
(***************************************************************************)
\* the calls the first reservation serves: the first returns v1 >= s + 1,
\* the next ones v1 + 1, ... without a reservation
S1FirstReservation ==
  \A i \in Returns :
    /\ i = 1 => returned[i].fresh /\ returned[i].val >= returned[i].saved + 1
    /\ (1 < i /\ i <= reserved_) =>
         ~returned[i].fresh /\ returned[i].val = returned[1].val + i - 1

S1Files(n) ==
  /\ file_first = FileOf(segnum_file_text(n))
  /\ file_second = FileOf(segnum_file_text(n))

S1Done == Len(returned) = reserved_ + 1 /\ \A t \in Threads : gpc[t] = "idle"

OneBlock(e) ==
  \A a \in e.earlier :
    a.send_segnum = e.message.send_segnum =>
      a.msgnum \div block_size = e.message.msgnum \div block_size

\* C16: authentic packets under one peer segment number whose message
\* numbers all lie within one block of the tracker, handled in any order of
\* their message numbers, each have their payload written to fifo_to_user_
\* when they first come, and nothing is written when one comes again.
C16_ReorderedInBlock ==
  \A e \in Events :
    (Authentic("A", e.message) /\ msg_my_segnum_good(e.before, unpack_header(e.message))
       /\ OneBlock(e))
      => /\ e.fresh => e.wrote = <<e.message.sealed.plaintext>>
         /\ e.replay => e.wrote = <<>>

\* in an open Connection a packet was accepted after a packet of the same
\* block with a higher message number, and a later copy of one was dropped
C16_Witness ==
  \E e, r \in Events :
    /\ e.before.current_peer_segnum_ # 0
    /\ OneBlock(e)
    /\ e.wrote # <<>>
    /\ \E a \in e.earlier : a.msgnum > e.message.msgnum
    /\ r.replay /\ OneBlock(r) /\ r.wrote = <<>>

(***************************************************************************)
(* The segment numbers a Connection holds.                                 *)
(***************************************************************************)
\* C17: in every state of a Connection current_local_segnum_ is not 0, and
\* old_peer_segnum_, when it is not 0, is below current_peer_segnum_.
C17_SegnumsOrdered ==
  \A h \in Hosts :
    /\ conn[h].current_local_segnum_ # 0
    /\ conn[h].old_peer_segnum_ # 0 =>
         conn[h].old_peer_segnum_ < conn[h].current_peer_segnum_

\* a second segment number of the peer was confirmed, and a packet under
\* the first one was handled after that
C17_Witness ==
  /\ conn["A"].old_peer_segnum_ # 0
  /\ \E e \in Events :
       /\ e.before.old_peer_segnum_ # 0
       /\ e.message.send_segnum = e.before.old_peer_segnum_

(***************************************************************************)
(* The limit of the message numbers.                                       *)
(***************************************************************************)
\* the packets the last run of move_data sent when local_next_msgnum_ was n
SentAt(n) == {i \in 1..Len(last_move.sent) : last_move.sent[i].next = n}

\* the packet was sent with message number 1 under a segment number taken
\* from the generator, and the segment number in use before is the old one
RolledOver(sent) ==
  /\ sent.packet.msgnum = uint_to_bytes(1)
  /\ sent.packet.send_segnum # uint_to_bytes(sent.local)
  /\ sent.packet.send_segnum = uint_to_bytes(conn[last_move.host].current_local_segnum_)
  /\ conn[last_move.host].old_local_segnum_ = sent.local

\* C18 as stated: local_next_msgnum_ never exceeds 2^48-1, and the packet
\* sent when it equals 2^48-1 has message number 1 under a fresh segment
\* number, the previous one being kept in old_local_segnum_.
C18_AsStated ==
  /\ \A h \in Hosts : conn[h].local_next_msgnum_ <= segnum_max
  /\ \A i \in SentAt(segnum_max) : RolledOver(last_move.sent[i])

\* C18, amended: local_next_msgnum_ never exceeds 2^48; the packet sent
\* when it equals 2^48 has message number 1 under a fresh segment number,
\* the previous one being kept in old_local_segnum_; the packet sent when
\* it equals 2^48-1 has message number 2^48-1 under the segment number in
\* use.
C18_MsgnumLimit ==
  /\ \A h \in Hosts : conn[h].local_next_msgnum_ <= segnum_max + 1
  /\ \A i \in SentAt(segnum_max + 1) : RolledOver(last_move.sent[i])
  /\ \A i \in SentAt(segnum_max) :
       /\ last_move.sent[i].packet.msgnum = uint_to_bytes(segnum_max)
       /\ last_move.sent[i].packet.send_segnum = uint_to_bytes(last_move.sent[i].local)

\* a packet was sent with local_next_msgnum_ at 2^48
C18_Witness ==
  /\ SentAt(segnum_max + 1) # {}
  /\ conn["A"].old_local_segnum_ = FirstSegnum

(***************************************************************************)
(* Claims about the Session.                                               *)
(***************************************************************************)
\* the worker threads inside move_data of the Connection
MovingData(conn_id) ==
  {w \in Workers : worker[w].pc = "move_data" /\ worker[w].conn_id = conn_id}

Queued(conn_id) ==
  {i \in 1..Len(connection_queue_) : connection_queue_[i] = conn_id}

\* C12: whatever the order of the steps of the udp socket thread, the fifo
\* monitor thread and the worker threads, no two workers are inside
\* move_data of one Connection; a Connection whose "being worked on" bool
\* is set is not in connection_queue_ (and the bool is set while a worker
\* is inside its move_data), and no Connection is in the queue twice.
C12_OneWorkerPerConnection ==
  \A conn_id \in ConnIds :
    /\ Cardinality(MovingData(conn_id)) <= 1
    /\ MovingData(conn_id) # {} => connections_[conn_id].second
    /\ connections_[conn_id].second => Queued(conn_id) = {}
    /\ Cardinality(Queued(conn_id)) <= 1

\* while a worker is inside move_data of a Connection, a message for it has
\* come in and the udp socket thread has called enqueue_connection for it
C12_Witness ==
  \E conn_id \in ConnIds :
    /\ MovingData(conn_id) # {}
    /\ connections_[conn_id].message_queue_ # <<>>
    /\ udp_thread = [pc |-> "notify", conn_id |-> conn_id]
    /\ connection_queue_ # <<>>

AllExited ==
  /\ \A w \in Workers : worker[w].pc = "exited"
  /\ monitor.pc = "exited"
  /\ udp_thread.pc = "exited"

\* C20: once stop() is called it returns in the end, and when it has
\* returned every worker thread, the fifo monitor thread and the udp socket
\* thread have exited.
C20_StopReturns ==
  /\ (stopper # "running") ~> (stopper = "returned")
  /\ [](stopper = "returned" => AllExited)

\* what holds of stop(): it returns unless std::terminate() is called
C20_ReturnsOrTerminated ==
  /\ (stopper # "running") ~> (stopper = "returned" \/ terminated)
  /\ [](stopper = "returned" => AllExited)

(***************************************************************************)
(* The pairs of segment number and message number of a host.               *)
(***************************************************************************)
\* C11: over all the runs of the program, all the Connections of the host
\* and all its packets (hello, empty response, data), no two packets made
\* by create_packet carry the same pair of sender segment number and
\* message number.
C11_NonceUnique ==
  \A nonce \in BagToSet(udp_sent) : CopiesIn(nonce, udp_sent) = 1

\* two Connections of the host have sent packets in a second run of the
\* program, after packets were sent in the first
C11_Witness ==
  /\ run = 2
  /\ \A h \in Hosts : conn[h].local_next_msgnum_ > 1
  /\ \E i \in Returns :
       /\ returned[i].run = 1
       /\ <<uint_to_bytes(returned[i].val), uint_to_bytes(1)>> \in BagToSet(udp_sent)

\* a Connection has used up its message numbers and sent a packet under a
\* new segment number
C11_RollOverReached ==
  \E h \in Hosts : conn[h].old_local_segnum_ # 0 /\ conn[h].local_next_msgnum_ > 1

(***************************************************************************)
(* Claims about reset() of the replay tracker.                             *)
(***************************************************************************)
\* the message numbers have_seen_msgnum is asked about: those that can be
\* logged and one block beyond
Asked == 0..(MaxMsgnum + block_size)

\* C21, as stated: after reset() the tracker answers have_seen_msgnum as a
\* freshly constructed tracker that is passed the same calls at the same
\* times, however far the ring had grown before the reset.
C21_AsStated ==
  \A m \in Asked : have_seen_msgnum(tracker, m) <=> have_seen_msgnum(fresh, m)

\* the tracker and the freshly constructed one give the same answers
SameAnswers(T, F) ==
  \A m \in Asked : have_seen_msgnum(T, m) = have_seen_msgnum(F, m)

\* C21, amended: reset() empties the tracker and keeps the blocks of the
\* ring.  Right after it no message number is reported seen; the answers
\* are those of a freshly constructed tracker from then on if the ring had
\* one block at the reset, and otherwise for as long as no message number
\* at or beyond block_size was logged since the reset.
C21_ResetEmpties ==
  [][/\ Reset => /\ \A m \in Asked : ~have_seen_msgnum(tracker', m)
                 /\ NumBlocks(tracker') = NumBlocks(tracker)
                 /\ NumBlocks(tracker) = 1 => tracker' = fresh'
     /\ (tracker = fresh /\ ~Reset) => tracker' = fresh'
     /\ tlog'.highest < block_size => SameAnswers(tracker', fresh')]_vars

\* a ring that had grown was reset, and a message number was logged since
C21_Witness ==
  /\ NumBlocks(tracker) > 1
  /\ NumBlocks(fresh) = 1
  /\ tlog.highest >= 0
  /\ tlog.highest < block_size

(***************************************************************************)
(* Claims about the numbers the segment number files hold.                 *)
(***************************************************************************)
\* the file has the format save_segnum() writes: two equal lines of digits,
\* nothing but empty lines after them
WellFormed(f) ==
  /\ f.exists
  /\ Len(getlines(f.data)) >= 2
  /\ getlines(f.data)[1] = getlines(f.data)[2]
  /\ getlines(f.data)[1] # <<>>
  /\ \A i \in 1..Len(getlines(f.data)[1]) : getlines(f.data)[1][i] \in DigitSet
  /\ \A i \in 3..Len(getlines(f.data)) : getlines(f.data)[i] = <<>>

\* the number a well-formed file stores
StoredValue(f) == stoull(getlines(f.data)[1])

\* C22: when reserve_nums() reads the files and one of them is well-formed
\* and stores a value of segnum_max or more, next_num() fails with the
\* error "segment number too large", whatever the other file holds, and
\* returns no value.
C22_TooLargeIsFatal ==
  [][\A t \in Threads :
       (/\ ReadsFiles(t)
        /\ \E f \in {file_first, file_second} :
             WellFormed(f) /\ StoredValue(f) >= segnum_max)
         => /\ thrown' = "segment number too large in file"
            /\ ~alive'
            /\ returned' = returned]_vars

\* the text of a file is what save_segnum() writes for the number v, or the
\* part of it that was written when the process stopped
Holds(f, v) == f.exists => f.data \in Prefixes(segnum_file_text(v))

\* C26: every value next_num() returns lies in 1..segnum_max-1, and every
\* number written to a segment number file is below segnum_max, whatever
\* the stored value, the clock and the reservation size are.
C26_InRange ==
  /\ \A i \in Returns : returned[i].val \in 1..(segnum_max - 1)
  /\ \A f \in {file_first, file_second} :
       \E v \in 1..(segnum_max - 1) : Holds(f, v)

\* the largest segment number was returned and is what both files hold
C26_Witness ==
  /\ \E i \in Returns : returned[i].val = segnum_max - 1
  /\ file_first = FileOf(segnum_file_text(segnum_max - 1))
  /\ file_second = FileOf(segnum_file_text(segnum_max - 1))

(***************************************************************************)
(* Claims about the number of loop passes a worker dwells on a Connection. *)
(***************************************************************************)
\* worker w takes a Connection from the queue in this step
Picks(w) == worker[w].pc = "lock" /\ worker'[w].pc = "move_data"

\* C25: the budget a worker passes to move_data is within dwell_min..dwell_max;
\* at each pick the shared budget changes by at most one; when the Connections
\* that are queued or worked on outnumber the workers it is decreased (it
\* stays at dwell_min) and never increased, otherwise it is increased (it
\* stays at dwell_max).
C25_DwellAdapts ==
  [][\A w \in Workers :
       Picks(w) =>
         /\ worker'[w].loops \in dwell_min..dwell_max
         /\ connection_dwell_loops_' - connection_dwell_loops_ \in {-1, 0, 1}
         /\ IF NumConns - Cardinality(monitor_fds_) > Cardinality(Workers)
            THEN connection_dwell_loops_' = Max(dwell_min, connection_dwell_loops_ - 1)
            ELSE connection_dwell_loops_' = Min(dwell_max, connection_dwell_loops_ + 1)]_vars

(***************************************************************************)
(* Claims about how the window of the replay tracker advances.             *)
(***************************************************************************)
\* log_msgnum(msgnum) has to advance the window of T
MustAdvance(T, msgnum) == msgnum >= T.base_msgnum_ + RecordsSize(T)

\* among the blocks a slide by num_blocks_forward would discard there is one
\* that is not full and was written within the round-trip time
RecentUnfilled(T, num_blocks_forward, millis_since_epoch, current_rtt) ==
  \E i \in 0..(Min(NumBlocks(T), num_blocks_forward) - 1) :
    LET block_record == T.block_records_[(i + T.current_block_) % NumBlocks(T)]
    IN /\ block_record.first < block_size
       /\ block_record.second <= millis_since_epoch
       /\ millis_since_epoch - block_record.second <= current_rtt

\* C30: when log_msgnum must advance the window and the ring has max_blocks
\* blocks, or every block to be discarded is full or was written longer ago
\* than the round-trip time, the window slides and the number of blocks is
\* unchanged; the number of blocks grows only when a block to be discarded
\* is not full and was written within the round-trip time.
C30_SlideOrGrow ==
  [][\A msgnum \in Msgnums :
       (LogMsgnum(msgnum) /\ MustAdvance(tracker, msgnum)) =>
         LET recent == RecentUnfilled(tracker, blocks_forward(tracker, msgnum),
                                      now, rtt_tracker_.current_rtt_)
         IN /\ (NumBlocks(tracker) = max_blocks \/ ~recent)
                 => /\ NumBlocks(tracker') = NumBlocks(tracker)
                    /\ tracker'.base_msgnum_ =
                         tracker.base_msgnum_ + (blocks_forward(tracker, msgnum) * block_size)
            /\ NumBlocks(tracker') > NumBlocks(tracker) => recent]_vars

(***************************************************************************)
(* Claims about packets that carry no segment number of ours in use.       *)
(***************************************************************************)
\* the receiver segment number of the packet is 0 or is neither the current
\* nor the previous local segment number of the Connection
Unrecognised(e) ==
  \/ e.message.recv_segnum = 0
  \/ e.message.recv_segnum \notin {e.before.current_local_segnum_,
                                   e.before.old_local_segnum_}

\* handling the packet left the peer segment numbers and both trackers as
\* they were, wrote nothing, and sent at most one packet, which is empty
\* and addressed to the sender segment number of the packet handled
PeerStateKept(e) ==
  /\ e.after.current_peer_segnum_ = e.before.current_peer_segnum_
  /\ e.after.old_peer_segnum_ = e.before.old_peer_segnum_
  /\ e.after.current_crypto_message_tracker_ = e.before.current_crypto_message_tracker_
  /\ e.after.old_crypto_message_tracker_ = e.before.old_crypto_message_tracker_
  /\ e.wrote = <<>>
  /\ Len(e.sent) <= 1
  /\ \A i \in 1..Len(e.sent) : /\ e.sent[i].sealed.plaintext = <<>>
                               /\ e.sent[i].recv_segnum = e.message.send_segnum
                               /\ e.sent[i].recv_segnum > e.before.current_peer_segnum_

\* C27, as stated: an authentic packet without a local segment number in use
\* leaves the peer segment numbers and the trackers alone and writes
\* nothing; all it does is one empty packet to its sender segment number,
\* and the message number that packet takes.
C27_AsStated ==
  \A e \in Events :
    (Authentic(last_move.host, e.message) /\ Unrecognised(e)) =>
      /\ PeerStateKept(e)
      /\ e.after = [e.before EXCEPT !.local_next_msgnum_ = @ + Len(e.sent)]

\* C27, amended: the same, and when the message numbers of the current local
\* segment number are used up the empty packet is made under a new local
\* segment number, the one in use so far becoming the previous one.
C27_UnconfirmedFrame ==
  \A e \in Events :
    (Authentic(last_move.host, e.message) /\ Unrecognised(e)) =>
      /\ PeerStateKept(e)
      /\ IF e.sent = <<>> THEN e.after = e.before
         ELSE IF e.before.local_next_msgnum_ <= segnum_max
         THEN e.after = [e.before EXCEPT !.local_next_msgnum_ = @ + 1]
         ELSE /\ e.after.old_local_segnum_ = e.before.current_local_segnum_
              /\ e.after.current_local_segnum_ > e.before.current_local_segnum_
              /\ e.after.local_next_msgnum_ = 2
              /\ e.sent[1].send_segnum = e.after.current_local_segnum_
              /\ e.sent[1].msgnum = 1
              /\ e.after = [e.before EXCEPT
                              !.old_local_segnum_ = e.after.old_local_segnum_,
                              !.current_local_segnum_ = e.after.current_local_segnum_,
                              !.segnumgen_ = e.after.segnumgen_,
                              !.local_next_msgnum_ = 2]

\* a packet with data and a segment number of ours from an earlier run was
\* handled and answered with an empty packet
C27_Witness ==
  \E e \in Events :
    /\ Authentic(last_move.host, e.message)
    /\ e.message.recv_segnum \in 1..(FirstSegnum - 1)
    /\ e.message.sealed.plaintext # <<>>
    /\ e.message.send_segnum > e.before.current_peer_segnum_
    /\ Len(e.sent) = 1

(***************************************************************************)
(* Claims about packets that are too old to be answered.                   *)
(***************************************************************************)
\* the packet carries no local segment number in use and a sender segment
\* number that is not above the peer segment number in use
Stale(e) ==
  /\ Unrecognised(e)
  /\ e.message.send_segnum <= e.before.current_peer_segnum_

\* C28: a packet whose receiver segment number is not a local segment number
\* in use and whose sender segment number is at most current_peer_segnum is
\* dropped without effect, authentic or not: no packet is sent, no message
\* number is taken, nothing is written and the Connection is as it was; so
\* a hello packet under a confirmed peer segment number gets no answer.
C28_StaleDropped ==
  \A e \in Events :
    Stale(e) => /\ e.sent = <<>>
                /\ e.wrote = <<>>
                /\ e.after = e.before

\* an authentic hello packet came under the peer segment number in use,
\* after the one answer the Connection has ever sent and with nothing of
\* its own sent, and got no answer
C28_Witness ==
  \E e \in Events :
    /\ Authentic(last_move.host, e.message)
    /\ e.message.recv_segnum = 0
    /\ e.message.send_segnum = e.before.current_peer_segnum_
    /\ e.before.local_next_msgnum_ = 2
    /\ written[last_move.host] = 0
    /\ e.sent = <<>>

(***************************************************************************)
(* Claims about the order of the peer segment numbers.                     *)
(***************************************************************************)
\* the confirmed peer segment numbers of a Connection
PeerSegnumsOf(c) == <<c.current_peer_segnum_, c.old_peer_segnum_>>

\* handling the packet confirmed its sender segment number: the packet is
\* authentic, carries a local segment number in use and a sender segment
\* number above the one in use, which takes its place; the one in use so far
\* and its tracker become the previous ones
Confirming(h, e) ==
  /\ Authentic(h, e.message)
  /\ ~Unrecognised(e)
  /\ e.message.send_segnum > e.before.current_peer_segnum_
  /\ e.after.current_peer_segnum_ = e.message.send_segnum
  /\ e.after.old_peer_segnum_ = e.before.current_peer_segnum_
  /\ e.after.old_crypto_message_tracker_ = e.before.current_crypto_message_tracker_

\* C29: current_peer_segnum never decreases, and it changes, with
\* old_peer_segnum and the roles of the trackers, only where handle_message
\* is given an authentic packet with the current local segment number, or
\* the previous one if there is one, and a sender segment number above
\* current_peer_segnum; making and sending packets leaves it as it is.
C29_PeerSegnumMonotone ==
  [][\A h \in Hosts :
       /\ conn'[h].current_peer_segnum_ >= conn[h].current_peer_segnum_
       /\ PeerSegnumsOf(conn'[h]) # PeerSegnumsOf(conn[h]) =>
            /\ last_move'.host = h
            /\ last_move'.events # <<>>
            /\ LET events == last_move'.events
               IN /\ PeerSegnumsOf(events[1].before) = PeerSegnumsOf(conn[h])
                  /\ PeerSegnumsOf(events[Len(events)].after) = PeerSegnumsOf(conn'[h])
                  /\ \A i \in 1..(Len(events) - 1) :
                       PeerSegnumsOf(events[i + 1].before) = PeerSegnumsOf(events[i].after)
                  /\ \A i \in 1..Len(events) :
                       PeerSegnumsOf(events[i].after) # PeerSegnumsOf(events[i].before) =>
                         Confirming(h, events[i])]_vars

\* a second peer segment number was confirmed, above the first, and a packet
\* of data was sent in the same run of move_data
C29_Witness ==
  /\ \E e \in Events :
       /\ e.before.current_peer_segnum_ # 0
       /\ e.after.current_peer_segnum_ > e.before.current_peer_segnum_
       /\ e.after.old_peer_segnum_ = e.before.current_peer_segnum_
  /\ \E i \in 1..Len(last_move.sent) : last_move.sent[i].kind = "data"

(***************************************************************************)
(* Claims about two Connections getting to know each other.                *)
(***************************************************************************)
Closed(h) == StateOf(conn[h]) = "Closed"
Open(h) == StateOf(conn[h]) = "Open"

\* the datagrams on their way to host h
InFlight(h) == {message_queue_[h][i] : i \in 1..Len(message_queue_[h])}

\* While only the user of A has written: B has no peer segment number before
\* A has B's; B gets A's from a packet of data, which it delivers; all that
\* B sends is empty and addressed to A's segment number; what A sends is a
\* hello packet (receiver segment number 0, no data), made while A had no
\* peer segment number, or data addressed to B's segment number.
HandshakeOrder ==
  written["B"] = 0 =>
    /\ ~Closed("B") =>
         /\ Open("B")
         /\ Open("A")
         /\ conn["A"].current_peer_segnum_ = conn["B"].current_local_segnum_
         /\ conn["B"].current_peer_segnum_ = conn["A"].current_local_segnum_
         /\ fifo_to_user_["B"] # <<>>
    /\ ~Closed("A") =>
         /\ Open("A")
         /\ conn["A"].current_peer_segnum_ = conn["B"].current_local_segnum_
         /\ conn["B"].local_next_msgnum_ > 1
    /\ \A packet \in InFlight("A") :
         /\ packet.sealed.plaintext = <<>>
         /\ packet.recv_segnum = conn["A"].current_local_segnum_
         /\ packet.send_segnum = conn["B"].current_local_segnum_
    /\ \A packet \in InFlight("B") :
         /\ packet.send_segnum = conn["A"].current_local_segnum_
         /\ \/ packet.recv_segnum = 0 /\ packet.sealed.plaintext = <<>>
            \/ /\ packet.recv_segnum = conn["B"].current_local_segnum_
               /\ packet.sealed.plaintext # <<>>
               /\ Open("A")

Restarted == written["B"] > MaxUserBytes

\* the datagrams that the step adds to those on their way to host h
NewlySentTo(h) ==
  {message_queue_'[h][i] : i \in (Len(message_queue_[h]) + 1)..Len(message_queue_'[h])}

\* the Connection of A has the segment number of the restarted peer, with
\* the peer segment number p of before as the previous one
Recovered(p) ==
  /\ conn["A"].current_peer_segnum_ = conn["B"].current_local_segnum_
  /\ conn["A"].old_peer_segnum_ = p

\* C24: when the peer of an open Connection is started again, with a greater
\* segment number p', and sends a hello packet, the datagrams being
\* delivered, the Connection in the end has current_peer_segnum = p' and
\* old_peer_segnum the segment number the peer had before, the data of the
\* restarted peer is delivered, and every packet sent from then on is
\* addressed to p'.
C24_PeerRestartRecovery ==
  /\ [](~Restarted => conn["A"].current_peer_segnum_ \in {0, FirstSegnum})
  /\ (/\ Restarted
      /\ conn["A"].current_peer_segnum_ = FirstSegnum
      /\ conn["A"].old_peer_segnum_ = 0
      /\ conn["B"].current_local_segnum_ > FirstSegnum)
       ~> (/\ Recovered(FirstSegnum)
           /\ \E i \in 1..Len(fifo_to_user_["A"]) :
                fifo_to_user_["A"][i] = MaxUserBytes + 1)
  /\ [][(/\ Restarted
         /\ conn["A"].current_peer_segnum_ = conn["B"].current_local_segnum_) =>
          /\ conn'["A"].current_peer_segnum_ = conn["A"].current_peer_segnum_
          /\ conn'["A"].old_peer_segnum_ = conn["A"].old_peer_segnum_
          /\ \A packet \in NewlySentTo("B") :
               packet.recv_segnum = conn["B"].current_local_segnum_]_vars

\* the Connection of A has taken the segment number of the restarted peer,
\* delivered its byte and sent data of its own to it since
C24_Witness ==
  /\ Restarted
  /\ Recovered(FirstSegnum)
  /\ fifo_to_user_["A"] # <<>>
  /\ fifo_to_user_["A"][Len(fifo_to_user_["A"])] = MaxUserBytes + 1
  /\ \E i \in 1..Len(fifo_to_user_["B"]) :
       /\ i > 1
       /\ fifo_to_user_["B"][i] = MaxUserBytes

(***************************************************************************)
(* Claims about the ring of the tracker when it is enlarged.               *)
(***************************************************************************)
\* the message numbers the window of tracker T covers
Window(T) == {n \in Msgnums : n >= T.base_msgnum_ /\ n < T.base_msgnum_ + RecordsSize(T)}

\* C31: when log_msgnum(m) enlarges the ring, whatever its size and
\* current_block, the blocks kept are copied in ring order from index 0 on,
\* so that every message number other than m inside the new window is
\* reported by have_seen_msgnum as it was before the call.
C31_GrowKeepsRecords ==
  [][\A m \in Msgnums :
       (LogMsgnum(m) /\ NumBlocks(tracker') > NumBlocks(tracker)) =>
         \A n \in Window(tracker') \ {m} :
           have_seen_msgnum(tracker', n) = have_seen_msgnum(tracker, n)]_vars

(***************************************************************************)
(* Claims about the representation of the tracker.                         *)
(***************************************************************************)
\* the records of block b that are set
SetSlots(T, b) ==
  {i \in DOMAIN T.msg_records_ : i \div block_size = b /\ T.msg_records_[i]}

\* sizes and indices of tracker T are in range
WellSized(T) ==
  /\ NumBlocks(T) >= 1
  /\ NumBlocks(T) <= max_blocks
  /\ DOMAIN T.block_records_ = 0..(NumBlocks(T) - 1)
  /\ DOMAIN T.msg_records_ = 0..((NumBlocks(T) * block_size) - 1)
  /\ T.current_block_ < NumBlocks(T)
  /\ T.base_msgnum_ % block_size = 0

\* the count kept for each block is the number of its records that are set
CountsExact(T) ==
  \A b \in DOMAIN T.block_records_ :
    T.block_records_[b].first = Cardinality(SetSlots(T, b))

\* C32: after any sequence of log_msgnum, have_seen_msgnum and reset calls
\* the ring has from 1 to max_blocks blocks, the bit vector has block_size
\* slots for each, current_block is the index of a block, base_msgnum is a
\* multiple of block_size and goes down at reset only, and the count stored
\* for each block is the number of slots set in it.
C32_Representation ==
  /\ [](WellSized(tracker) /\ CountsExact(tracker))
  /\ [][tracker'.base_msgnum_ >= tracker.base_msgnum_ \/ Reset]_vars

\* C40: without reset, a message number that have_seen_msgnum reports as
\* seen is reported as seen in every later state, whatever log_msgnum calls
\* follow (moving or enlarging the window), whatever the round-trip time,
\* message numbers below the window included.
C40_SeenIsPermanent ==
  [][\A m \in Msgnums :
       have_seen_msgnum(tracker, m) => have_seen_msgnum(tracker', m)]_vars

(***************************************************************************)
(* Claims about the local segment number a packet is addressed to.         *)
(***************************************************************************)
\* the packet comes under a confirmed peer segment number with a message
\* number its tracker has not seen
UnseenFromConfirmed(e) ==
  /\ e.message.send_segnum # 0
  /\ e.message.send_segnum \in {e.before.current_peer_segnum_, e.before.old_peer_segnum_}
  /\ ~have_seen_msgnum(tracker_of(e.before, unpack_header(e.message)), e.message.msgnum)

\* C33: after a rollover of the local segment number an authentic packet of
\* the confirmed peer addressed to the previous local segment number, with a
\* message number not seen, is still delivered; a packet addressed to
\* receiver segment number 0 or to a local segment number older than the
\* previous one is never delivered; and while there is no previous local
\* segment number (old_local_segnum = 0) a receiver segment number of 0
\* does not count as matching it.
C33_PreviousLocalSegnum ==
  \A e \in Events :
    /\ (/\ Authentic(last_move.host, e.message)
        /\ e.before.old_local_segnum_ # 0
        /\ e.message.recv_segnum = e.before.old_local_segnum_
        /\ UnseenFromConfirmed(e)) => e.wrote = <<e.message.sealed.plaintext>>
    /\ Unrecognised(e) => e.wrote = <<>> /\ PeerStateKept(e)
    /\ (e.before.old_local_segnum_ = 0 /\ e.message.recv_segnum = 0) =>
         e.wrote = <<>> /\ PeerStateKept(e)

\* with a peer segment number confirmed and the local segment number rolled
\* over twice, a packet addressed to the previous local segment number was
\* delivered
C33_Witness ==
  \E e \in Events :
    /\ Authentic(last_move.host, e.message)
    /\ e.before.current_local_segnum_ = FirstSegnum + MaxLocalRollovers
    /\ e.message.recv_segnum = e.before.old_local_segnum_
    /\ e.message.send_segnum = e.before.current_peer_segnum_
    /\ e.wrote = <<e.message.sealed.plaintext>>

(***************************************************************************)
(* Claims about the keys of the two directions.                            *)
(***************************************************************************)
\* the packet was made by the Connection of host h itself
Reflected(h, message) ==
  /\ message.altered = "no"
  /\ message.sealed.key = hkdf_expand(h, PeerOf(h))

\* the key create_packet of c encrypts with, and the key handle_message of c
\* decrypts with
SendKey(c) == hkdf_expand(c.self_id_, c.peer_id_)
ReceiveKey(c) == hkdf_expand(c.peer_id_, c.self_id_)

\* C34: the two hosts having different ids, a packet that a Connection sent
\* and that comes back to it unchanged never passes the tag check: nothing
\* is written, nothing is sent and the Connection is as it was; and the key
\* a Connection encrypts with is the key the Connection of its peer decrypts
\* with.
C34_DirectionsApart ==
  /\ \A e \in Events :
       Reflected(last_move.host, e.message) =>
         /\ e.wrote = <<>>
         /\ e.sent = <<>>
         /\ e.after = e.before
  /\ \A h \in Hosts :
       /\ SendKey(conn[h]) = ReceiveKey(conn[PeerOf(h)])
       /\ SendKey(conn[h]) # ReceiveKey(conn[h])

\* a packet of data of the Connection, addressed to the peer segment number
\* in use, has come back to it and was handled
C34_Witness ==
  /\ \E e \in Events :
       /\ Reflected(last_move.host, e.message)
       /\ e.message.recv_segnum # 0
       /\ e.message.sealed.plaintext # <<>>
       /\ e.message.send_segnum = e.before.current_local_segnum_
       /\ e.message.recv_segnum = e.before.current_peer_segnum_
  /\ conn[last_move.host].local_next_msgnum_ > 2

(***************************************************************************)
(* Claims about a reservation of segment numbers that fails.               *)
(***************************************************************************)
\* the greatest number a segment number file holds
PersistedMax == Max(get_saved_segnum(file_first), get_saved_segnum(file_second))

\* C36: when next_num() has thrown out of reserve_nums (the new limit is too
\* high, or a file cannot be opened for writing) and the generator is used
\* again, no value next_num() returns exceeds the value the files hold from
\* the last successful write: a later call throws again or reserves first.
C36_NoUnpersistedNumbers ==
  \A i \in Returns : returned[i].val <= PersistedMax

(***************************************************************************)
(* Claims about the dispatcher of the Session.                             *)
(***************************************************************************)
\* C39: whenever the monitor thread, after poll() has returned, looks up the
\* readable descriptors in monitor_fds_ under session_lock_, each of them is
\* still a key of monitor_fds_, whatever the socket reader and the workers
\* did since the poll list was built.
C39_LookupDefined ==
  (monitor.pc = "enqueue" /\ ~terminated) => monitor.revents \subseteq monitor_fds_

\* the workers that hold the Connection between their two locked sections
WorkingOn(conn_id) ==
  {w \in Workers : worker[w].pc \in {"move_data", "moved"} /\ worker[w].conn_id = conn_id}

\* the places of the dispatcher a Connection is in
PlacesOf(conn_id) ==
  (IF Queued(conn_id) # {} THEN {"queue"} ELSE {})
    \cup (IF connections_[conn_id].second THEN {"worker"} ELSE {})
    \cup (IF conn_id \in monitor_fds_ THEN {"monitor"} ELSE {})

\* C37: whenever session_lock_ is free, every Connection is in exactly one of
\* the ready queue, the hands of exactly one worker, and monitor_fds_; so
\* connections_.size() - monitor_fds_.size() is the number of the
\* Connections that are queued or worked on.
C37_Partition ==
  /\ \A conn_id \in ConnIds :
       /\ Cardinality(PlacesOf(conn_id)) = 1
       /\ Cardinality(Queued(conn_id)) <= 1
       /\ Cardinality(WorkingOn(conn_id)) = IF connections_[conn_id].second THEN 1 ELSE 0
  /\ Cardinality(ConnIds) - Cardinality(monitor_fds_)
       = Cardinality({conn_id \in ConnIds :
                        Queued(conn_id) # {} \/ connections_[conn_id].second})

\* a datagram came for a Connection that is worked on: enqueue_connection has
\* left it out of the queue, while the other Connection waits in the queue
C37_Witness ==
  \E conn_id \in ConnIds :
    /\ udp_thread.pc = "notify" /\ udp_thread.conn_id = conn_id
    /\ connections_[conn_id].second
    /\ connections_[conn_id].message_queue_ # <<>>
    /\ \E other \in ConnIds \ {conn_id} : Queued(other) # {}

\* a worker takes datagrams off the incoming queue of the Connection in
\* this step: move_data has run on it
Dequeued(conn_id) ==
  /\ \E w \in Workers : worker[w].pc = "move_data" /\ worker[w].conn_id = conn_id
  /\ Len(connections_'[conn_id].message_queue_) < Len(connections_[conn_id].message_queue_)

\* C38: when stop() is not called and every thread that can run does run,
\* each datagram the udp socket thread has added to the incoming queue of a
\* Connection is taken off it by a move_data of that Connection in the end:
\* the queue, which is served in order, is empty again and again or is
\* dequeued from again and again.
C38_NoLostWork ==
  \A conn_id \in ConnIds :
    \/ <>(stopper # "running")
    \/ []<>(connections_[conn_id].message_queue_ = <<>>)
    \/ []<><<Dequeued(conn_id)>>_vars

\* worker w ends its turn on a Connection that is Closed, has bytes waiting
\* in its from-user FIFO and no datagram in its queue
LeavesPending(w) ==
  /\ worker[w].pc = "moved" /\ worker'[w].pc = "lock"
  /\ ~connections_[worker[w].conn_id].open
  /\ connections_[worker[w].conn_id].fifo > 0
  /\ connections_[worker[w].conn_id].message_queue_ = <<>>

\* a move_data runs on the Connection while it is Closed with bytes waiting
\* in the FIFO and after the first datagram of the queue, if there is one,
\* it is Closed still: the invocation sends one hello packet
HelloSent(conn_id) ==
  /\ \E w \in Workers :
       /\ worker[w].pc = "move_data" /\ worker[w].conn_id = conn_id
       /\ worker'[w].pc = "moved"
  /\ ~data_moved(connections_[conn_id], 1).open
  /\ connections_[conn_id].fifo > 0

\* a move_data reads bytes from the from-user FIFO of the Connection
FifoRead(conn_id) ==
  /\ \E w \in Workers : worker[w].pc = "move_data" /\ worker[w].conn_id = conn_id
  /\ connections_'[conn_id].fifo < connections_[conn_id].fifo

\* C35: a Closed Connection with bytes waiting in its from-user FIFO and no
\* datagram queued is put in monitor_fds_, not in the queue, when a worker
\* is done with it (is_data() is false), and the monitor thread is woken;
\* while stop() is not called it gets move_data again and again, each one
\* sending a hello packet, as long as it is Closed with the bytes waiting;
\* and when it is Open the bytes that wait are read by move_data in the end.
C35_PendingBytesServed ==
  /\ [][\A w \in Workers :
          LeavesPending(w) =>
            /\ worker[w].conn_id \in monitor_fds_'
            /\ 0 \in monitor_wake'
            /\ \A i \in 1..Len(connection_queue_') :
                 connection_queue_'[i] # worker[w].conn_id]_vars
  /\ \A conn_id \in ConnIds :
       \/ <>(stopper # "running")
       \/ /\ \/ []<>(connections_[conn_id].open \/ connections_[conn_id].fifo = 0)
             \/ []<><<HelloSent(conn_id)>>_vars
          /\ \/ []<>(~connections_[conn_id].open \/ connections_[conn_id].fifo = 0)
             \/ []<><<FifoRead(conn_id)>>_vars

====================
